---------------------------- MODULE Spec2Model ----------------------------
(***************************************************************************)
(* Model of the guitar-guide chord coaching core: chord scoring            *)
(* (packages/shared/scoring.ts), the stability tracker                     *)
(* (features/chord-trainer ChordMatcher) and the frame loop of             *)
(* FrameProcessor (lib/frame-processor).                                   *)
(*                                                                         *)
(* Numbers.  scoreChord works in floating point; the model keeps every     *)
(* score as an integer number of 1/600ths (ScoreOne = 600 is the score     *)
(* 1.0), which represents score/6 - penalty exactly: one string is worth   *)
(* 100, a muted string 60, half an extra finger 15.  Fret indices are the  *)
(* integers findNearestFret returns; confidences are ordered levels.       *)
(* Times are milliseconds.                                                 *)
(***************************************************************************)
EXTENDS Integers, Sequences, FiniteSets, TLC

VARIABLES
    \* ---- chord scoring (scoreChord and its inputs)
    template,      \* name of the chord template being practised
    fingers,       \* the FingerAssignment list handed to scoreChord
    result,        \* the ChordMatchResult scoreChord returned for them
    \* ---- stability tracking
    tracker,       \* the StabilityTracker {score, stableMs, lastUpdate}
    held,          \* history of the updates applied to the tracker
    \* ---- FrameProcessor
    isRunning,     \* FrameProcessor.isRunning
    video,         \* videoElement and callback: "null" before start(), else
                   \* whether the element has requestVideoFrameCallback
    sched,         \* animationFrameId and the frame callbacks still pending
    frames,        \* the processFrame executions suspended at an await
    frameCount,    \* FrameProcessor.frameCount
    handTracker,   \* HandTracker: isInitialized, and whether the keypoint
                   \* filter holds state
    currentChord,  \* what getChordTarget() returns (the practice store)
    now,           \* Date.now()
    \* ---- observation of the frame loop
    trackedChord,  \* chord of the matches that fed the current tracker
    snapshot,      \* what the last emitted FrameState reported
    last,          \* what the last transition did
    \* ---- calibration: computeHomography and its inputs
    srcPoints,     \* the srcPoints argument
    dstPoints,     \* the dstPoints argument
    homography,    \* what the call did: not made yet, threw, or the matrix
    \* ---- fretboard: detectLines, estimateFretboard and their inputs
    imageData,     \* the image, as the edge runs its rows and columns hold
    manualPoints,  \* the manualPoints argument
    lineResult,    \* what detectLines did
    estimate,      \* what estimateFretboard did
    \* ---- hands: two executions of HandTracker.detect on frames that differ
    \* in nothing but the keypoints of the first hand
    detections,    \* per execution: the keypoint filter, the frame, the hands
    \* ---- mapping, hand roles and the calibration wizard
    mapper,        \* mapToStringsAndFrets: its arguments and what it did
    assigner,      \* assignHands: its arguments and the roles it returned
    wizard         \* the ManualCalibration component and its stores

scoreVars == <<template, fingers, result>>

stabVars == <<tracker, held>>

frameVars == <<isRunning, video, sched, frames, frameCount, handTracker,
               currentChord, now, trackedChord, snapshot, last>>

visionVars == <<srcPoints, dstPoints, homography, imageData, manualPoints,
                lineResult, estimate, detections, mapper, assigner, wizard>>

vars == <<template, fingers, result, tracker, held, isRunning, video, sched,
          frames, frameCount, handTracker, currentChord, now, trackedChord,
          snapshot, last, srcPoints, dstPoints, homography, imageData,
          manualPoints, lineResult, estimate, detections, mapper, assigner,
          wizard>>

-----------------------------------------------------------------------------
(* Helpers *)

Min(a, b) == IF a < b THEN a ELSE b

Max(a, b) == IF a > b THEN a ELSE b

Abs(a) == IF a < 0 THEN -a ELSE a

-----------------------------------------------------------------------------
(* Bounds of the model *)

\* longest finger list built one finger at a time
MaxFingers == 2

\* highest fret index a finger is observed at
MaxFret == 3

\* misplaced fingers in a list that crowds the fretted strings
MaxCrowd == 7

\* latest timestamp (ms) handed to the stability tracker
MaxTime == 3000

\* most frame loops (suspended executions plus pending callbacks) at once
MaxLoops == 2

\* latest reading (ms) of the frame loop's clock
MaxClock == 2000

\* config.fretboardUpdateInterval (frames) the processor is constructed with
FretboardUpdateInterval == 2

-----------------------------------------------------------------------------
(* Chord templates *)

NumStrings == 6

Strings == 1..NumStrings

Frets == 0..MaxFret

\* ordered confidence levels of a finger assignment (low, high)
Confidences == {1, 2}

NoFinger == -1

Unconstrained == [type |-> "none", fret |-> 0, finger |-> NoFinger]

Muted == [type |-> "muted", fret |-> 0, finger |-> NoFinger]

Open == [type |-> "open", fret |-> 0, finger |-> NoFinger]

Fretted(k, f) == [type |-> "fretted", fret |-> k, finger |-> f]

\* a template is given as the tuple of its constraints on strings 1..6
CHORD_TEMPLATES ==
    [ C  |-> <<Open, Fretted(1, 1), Open, Fretted(2, 2), Fretted(3, 3), Muted>>,
      D  |-> <<Fretted(2, 4), Fretted(2, 3), Fretted(2, 2), Open, Muted, Muted>>,
      E  |-> <<Open, Open, Fretted(1, 1), Fretted(2, 3), Fretted(2, 2), Open>>,
      G  |-> <<Fretted(3, 2), Fretted(3, 4), Open, Open, Open, Fretted(3, 3)>>,
      A  |-> <<Open, Open, Fretted(2, 4), Fretted(2, 3), Fretted(2, 2), Open>>,
      Am |-> <<Open, Open, Open, Fretted(2, 3), Fretted(2, 2), Open>>,
      Em |-> <<Open, Open, Open, Fretted(2, 3), Fretted(2, 2), Open>>,
      Dm |-> <<Fretted(1, 1), Fretted(2, 3), Fretted(2, 2), Open, Muted, Muted>> ]

CHORD_NAMES == DOMAIN CHORD_TEMPLATES

\* Templates outside the catalog that the ChordTemplate type admits: a
\* two-note shape with four muted strings, a partial template that leaves
\* strings 5 and 6 without a constraint, and a barre chord that frets all six.
OtherTemplates ==
    [ X4 |-> <<Open, Fretted(1, 1), Muted, Muted, Muted, Muted>>,
      P4 |-> <<Fretted(1, 1), Open, Fretted(2, 2), Muted, Unconstrained, Unconstrained>>,
      F  |-> <<Fretted(1, 1), Fretted(1, 1), Fretted(2, 2), Fretted(3, 4), Fretted(3, 3),
               Fretted(1, 1)>> ]

TemplateNames == CHORD_NAMES \cup DOMAIN OtherTemplates

getChordTemplate(name) ==
    IF name \in CHORD_NAMES THEN CHORD_TEMPLATES[name] ELSE OtherTemplates[name]

-----------------------------------------------------------------------------
(* scoring.ts *)

\* Scores are counted in 1/600ths of the full score 1.0: the share 1/6 of a
\* string that earns `score += 1` is 100, of a muted string (0.6) 60; the
\* penalty 0.05 per extra finger is 15 per half finger, its cap 0.2 is 120.
FullCredit == 100

MutedCredit == 60

PenaltyPerHalf == 15

PenaltyCap == 120

ScoreOne == NumStrings * FullCredit

Finger(id, s, f, c) ==
    [fingerId |-> id, stringIdx |-> s, fretIdx |-> f, confidence |-> c]

\* indices of the fingers on a string, in list order
Candidates(fs, s) == {i \in 1..Len(fs) : fs[i].stringIdx = s}

\* reduce with `>=` in place of `>`: the last finger among those of the highest
\* confidence
BestIndex_LastOnTies(fs, s) ==
    CHOOSE i \in Candidates(fs, s) :
        \A j \in Candidates(fs, s) :
            \/ fs[j].confidence < fs[i].confidence
            \/ fs[j].confidence = fs[i].confidence /\ i >= j

\* reduce((best, current) => current.confidence > best.confidence ? current : best):
\* the first finger, in list order, among those of the highest confidence
BestIndex(fs, s) ==
    CHOOSE i \in Candidates(fs, s) :
        \A j \in Candidates(fs, s) :
            \/ fs[j].confidence < fs[i].confidence
            \/ fs[j].confidence = fs[i].confidence /\ i <= j

HasFinger(fs, s) == Candidates(fs, s) # {}

bestFingerOnString(fs, s) == fs[BestIndex(fs, s)]

\* extraCount of one finger, in halves
ExtraHalves(f, tmpl) ==
    LET c == IF f.stringIdx \in Strings THEN tmpl[f.stringIdx] ELSE Unconstrained
    IN  CASE c.type = "none" -> 2
          [] c.type = "muted" -> 2
          [] c.type = "fretted" -> IF f.fretIdx # c.fret THEN 1 ELSE 0
          [] OTHER -> 0

RECURSIVE SumExtraHalves(_, _, _)
SumExtraHalves(fs, tmpl, i) ==
    IF i > Len(fs) THEN 0
    ELSE ExtraHalves(fs[i], tmpl) + SumExtraHalves(fs, tmpl, i + 1)

computeExtraFingerPenalty(fs, tmpl) ==
    Min(SumExtraHalves(fs, tmpl, 1) * PenaltyPerHalf, PenaltyCap)

\* expected.type === 'muted': ok, worth 0.6
ScoreMuted_NoCredit ==
    [ok |-> TRUE, reason |-> "muting not enforced", fingerId |-> NoFinger, credit |-> 0]

ScoreMuted ==
    [ok |-> TRUE, reason |-> "muting not enforced", fingerId |-> NoFinger,
     credit |-> MutedCredit]

\* expected.type === 'open': ok unless the best finger on the string blocks it
ScoreOpen_StrictlyNegative(fs, s) ==
    IF ~HasFinger(fs, s) \/ bestFingerOnString(fs, s).fretIdx < 0
    THEN [ok |-> TRUE, reason |-> "", fingerId |-> NoFinger, credit |-> FullCredit]
    ELSE [ok |-> FALSE, reason |-> "finger blocking open string",
          fingerId |-> NoFinger, credit |-> 0]

ScoreOpen(fs, s) ==
    IF ~HasFinger(fs, s) \/ bestFingerOnString(fs, s).fretIdx <= 0
    THEN [ok |-> TRUE, reason |-> "", fingerId |-> NoFinger, credit |-> FullCredit]
    ELSE [ok |-> FALSE, reason |-> "finger blocking open string",
          fingerId |-> NoFinger, credit |-> 0]

\* Math.abs(observed.fretIdx - expected.fret) <= 0.5
WithinTolerance_OneFretOff(observedFret, expectedFret) ==
    2 * Abs(observedFret - expectedFret) <= 3

WithinTolerance(observedFret, expectedFret) ==
    2 * Abs(observedFret - expectedFret) <= 1

\* `wrong fret (expected ${expected.fret}, got ${observed.fretIdx})`
WrongFretReason(expectedFret, observedFret) ==
    "wrong fret (expected " \o ToString(expectedFret) \o ", got "
        \o ToString(observedFret) \o ")"

\* expected.type === 'fretted'
ScoreFretted(fs, s, expected) ==
    IF HasFinger(fs, s)
       /\ WithinTolerance(bestFingerOnString(fs, s).fretIdx, expected.fret)
    THEN [ok |-> TRUE, reason |-> "",
          fingerId |-> bestFingerOnString(fs, s).fingerId, credit |-> FullCredit]
    ELSE [ok |-> FALSE,
          reason |-> IF HasFinger(fs, s)
                     THEN WrongFretReason(expected.fret,
                                          bestFingerOnString(fs, s).fretIdx)
                     ELSE "missing finger",
          fingerId |-> NoFinger, credit |-> 0]

\* the body of scoreChord's loop for string s: the perString entry and the credit
ScoreString(fs, tmpl, s) ==
    LET expected == tmpl[s]
    IN  CASE expected.type = "none" ->
               [ok |-> TRUE, reason |-> "no constraint", fingerId |-> NoFinger,
                credit |-> FullCredit]
          [] expected.type = "muted" -> ScoreMuted
          [] expected.type = "open" -> ScoreOpen(fs, s)
          [] OTHER -> ScoreFretted(fs, s, expected)

\* the final score without its clamp
FinalScore_NoClamp(raw) == raw

\* finalScore: Math.max(0, Math.min(1, score / maxScore - extraPenalty))
FinalScore(raw) == Max(0, Min(ScoreOne, raw))

scoreChord(fs, tmpl) ==
    LET ps == [s \in Strings |-> ScoreString(fs, tmpl, s)]
        score == ps[1].credit + ps[2].credit + ps[3].credit
                 + ps[4].credit + ps[5].credit + ps[6].credit
        extraPenalty == computeExtraFingerPenalty(fs, tmpl)
    IN  [ score |-> FinalScore(score - extraPenalty),
          perString |-> [s \in Strings |->
                           [ok |-> ps[s].ok, reason |-> ps[s].reason,
                            fingerId |-> ps[s].fingerId]],
          stabilityMs |-> 0 ]

-----------------------------------------------------------------------------
(* ChordMatcher: the stability tracker *)

\* createStabilityTracker(0.85, 2000): the threshold in 1/600ths, the hold in ms
Threshold == 510

RequiredStableMs == 2000

createStabilityTracker(nowMs) ==
    [score |-> 0, stableMs |-> 0, lastUpdate |-> nowMs]

\* updateStability for a finite score
updateStability_StrictThreshold(trk, newScore, timestamp) ==
    LET dt == Max(0, timestamp - trk.lastUpdate)
    IN  [ score |-> newScore,
          stableMs |-> IF newScore > Threshold THEN trk.stableMs + dt ELSE 0,
          lastUpdate |-> timestamp ]

updateStability(trk, newScore, timestamp) ==
    LET dt == Max(0, timestamp - trk.lastUpdate)
    IN  [ score |-> newScore,
          stableMs |-> IF newScore >= Threshold THEN trk.stableMs + dt ELSE 0,
          lastUpdate |-> timestamp ]

isChordStable(trk) == trk.stableMs >= RequiredStableMs

\* What has been applied to the tracker since it was created: the timestamp of
\* the last update (-1: none), whether that update's score was below the
\* threshold, and the timestamp of the first update of the unbroken run of
\* at-or-above-threshold updates that the last update belongs to (-1: no run).
NoUpdates == [lastTs |-> -1, below |-> FALSE, since |-> -1]

-----------------------------------------------------------------------------
(* FrameProcessor: state *)


NoChord == "none"

\* the chords the player selects in the practice store
TargetChords == {"E", "A"}

\* confidence, in percent, of estimateFretboard(imageData): below 60 the
\* result carries no homography
FbConfidences == {30, 90}

\* where a suspended processFrame execution waits: "convert" at the await of
\* imageDataToImageBitmap, "init" at the initialize() awaited inside detect,
\* "detectNone" / "detectHands" at the await of detect, by what it found
Awaits == {"convert", "init", "detectNone", "detectHands"}

\* lineResult.confidence < 0.6, in percent
HomographyFloor == 60

Slots == 1..MaxLoops

IdleFrame == "idle"

NoCallbacks == [hasId |-> FALSE, latest |-> FALSE, raf |-> 0, rvfc |-> 0]

NoSnapshot == [chordTarget |-> NoChord, carriedMs |-> 0, fretboard |-> 0]

\* what a transition did: whether a processFrame execution ended in it and
\* how many callbacks that execution registered, whether a pipeline step ran,
\* whether the observer callback was invoked
NoFrameWork == [ended |-> FALSE, scheduled |-> 0, ranStep |-> FALSE, emitted |-> FALSE]

Pending(sc) == sc.raf + sc.rvfc

InFlight(frs) == Cardinality({i \in Slots : frs[i] # IdleFrame})

FreeSlot(frs) ==
    CHOOSE i \in Slots : frs[i] = IdleFrame /\ \A j \in Slots : frs[j] = IdleFrame => i <= j

\* no call of the calibration and vision functions made yet
NotCalled == [status |-> "none", value |-> <<>>]

\* imageData === null, and manualPoints === undefined
NullImage == [kind |-> "null", lines |-> <<>>]
NoManualPoints == [given |-> FALSE, points |-> <<>>, invalid |-> {}]

CalibrationIdle ==
    /\ srcPoints = <<>>
    /\ dstPoints = <<>>
    /\ homography = NotCalled

FretboardIdle ==
    /\ imageData = NullImage
    /\ manualPoints = NoManualPoints
    /\ lineResult = NotCalled
    /\ estimate = NotCalled

HandsIdle == detections = <<>>

MapperIdle == mapper = NotCalled

AssignerIdle == assigner = NotCalled

WizardIdle == wizard = NotCalled

VisionIdle ==
    /\ CalibrationIdle
    /\ FretboardIdle
    /\ HandsIdle
    /\ MapperIdle
    /\ AssignerIdle
    /\ WizardIdle

FrameIdle(chord) ==
    /\ isRunning = FALSE
    /\ video = "null"
    /\ sched = NoCallbacks
    /\ frames = [i \in Slots |-> IdleFrame]
    /\ frameCount = 0
    /\ handTracker = [isInitialized |-> FALSE, filterPrimed |-> FALSE]
    /\ currentChord = chord
    /\ now = 0
    /\ trackedChord = NoChord
    /\ snapshot = NoSnapshot
    /\ last = NoFrameWork

-----------------------------------------------------------------------------
(* FrameProcessor: scheduleNextFrame and processFrame *)

\* scheduleNextFrame(): nothing when stopped; else one callback, registered
\* with requestVideoFrameCallback when the element has it and the call does
\* not throw, with requestAnimationFrame (whose id is kept) otherwise
scheduleNextFrame_NoFallback(running, hasRVFC, rvfcThrows, sc) ==
    IF ~running \/ (hasRVFC /\ rvfcThrows) THEN sc
    ELSE IF hasRVFC
         THEN [sc EXCEPT !.rvfc = @ + 1]
         ELSE [sc EXCEPT !.raf = @ + 1, !.hasId = TRUE, !.latest = TRUE]

scheduleNextFrame(running, hasRVFC, rvfcThrows, sc) ==
    IF ~running THEN sc
    ELSE IF hasRVFC /\ ~rvfcThrows
         THEN [sc EXCEPT !.rvfc = @ + 1]
         ELSE [sc EXCEPT !.raf = @ + 1, !.hasId = TRUE, !.latest = TRUE]

NextCount(fc) == (fc + 1) % FretboardUpdateInterval

\* The end of a processFrame execution: `counted` tells whether it passes
\* frameCount++ (the early return for a missing frame does not).
EndFrame(counted, ranStep, emitted, running, vid, rvfcThrows, sc, frs) ==
    LET sc2 == scheduleNextFrame(running, vid = "rvfc", rvfcThrows, sc)
    IN  /\ sched' = sc2
        /\ frames' = frs
        /\ frameCount' = IF counted THEN NextCount(frameCount) ELSE frameCount
        /\ last' = [ended |-> TRUE,
                    scheduled |-> Pending(sc2) - Pending(sc),
                    ranStep |-> ranStep, emitted |-> emitted]

\* processFrame() from its call to its first await.  `acquired` is what
\* getDownsampledFrame did: "nodata", "throw" or "data".
EnterFrame(running, vid, sc, acquired, rvfcThrows) ==
    IF ~running \/ vid = "null"
    THEN /\ sched' = sc
         /\ last' = [NoFrameWork EXCEPT !.ended = TRUE]
         /\ UNCHANGED <<frames, frameCount>>
    ELSE CASE acquired = "nodata" ->
                EndFrame(FALSE, FALSE, FALSE, running, vid, rvfcThrows, sc, frames)
           [] acquired = "throw" ->
                EndFrame(TRUE, FALSE, FALSE, running, vid, rvfcThrows, sc, frames)
           [] OTHER ->
                /\ InFlight(frames) < MaxLoops
                /\ frames' = [frames EXCEPT ![FreeSlot(frames)] = "convert"]
                /\ sched' = sc
                /\ last' = NoFrameWork
                /\ UNCHANGED frameCount

Acquisitions == {"nodata", "throw", "data"}

-----------------------------------------------------------------------------
(* FrameProcessor: the public methods *)

\* start(videoElement, callback)
Start ==
    /\ InFlight(frames) + Pending(sched) < MaxLoops
    /\ \E vid \in {"raf", "rvfc"}, acquired \in Acquisitions, rvfcThrows \in BOOLEAN :
          /\ video' = vid
          /\ isRunning' = TRUE
          /\ EnterFrame(TRUE, vid, sched, acquired, rvfcThrows)
    /\ UNCHANGED <<handTracker, currentChord, now, trackedChord, snapshot,
                   tracker, held, scoreVars, visionVars>>

\* what stop() leaves of the callbacks: cancelAnimationFrame(animationFrameId)
StopSched(sc) ==
    IF sc.hasId
    THEN [sc EXCEPT !.hasId = FALSE, !.latest = FALSE,
                    !.raf = IF sc.latest THEN @ - 1 ELSE @]
    ELSE sc

\* stop()
Stop ==
    /\ isRunning' = FALSE
    /\ sched' = StopSched(sched)
    /\ last' = NoFrameWork
    /\ UNCHANGED <<video, frames, frameCount, handTracker, currentChord, now,
                   trackedChord, snapshot, tracker, held, scoreVars, visionVars>>

\* dispose(): stop(), then HandTracker.dispose()
Dispose ==
    /\ isRunning' = FALSE
    /\ sched' = StopSched(sched)
    /\ handTracker' = [isInitialized |-> FALSE, filterPrimed |-> FALSE]
    /\ last' = NoFrameWork
    /\ UNCHANGED <<video, frames, frameCount, currentChord, now,
                   trackedChord, snapshot, tracker, held, scoreVars, visionVars>>

\* reset()
Reset ==
    /\ frameCount' = 0
    /\ tracker' = createStabilityTracker(now)
    /\ trackedChord' = NoChord
    /\ handTracker' = [handTracker EXCEPT !.filterPrimed = FALSE]
    /\ last' = NoFrameWork
    /\ UNCHANGED <<isRunning, video, sched, frames, currentChord, now,
                   snapshot, held, scoreVars, visionVars>>

\* initialize(), when HandTracker.initialize() has completed
Initialize ==
    /\ ~handTracker.isInitialized
    /\ handTracker' = [handTracker EXCEPT !.isInitialized = TRUE]
    /\ last' = NoFrameWork
    /\ UNCHANGED <<isRunning, video, sched, frames, frameCount, currentChord, now,
                   trackedChord, snapshot, tracker, held, scoreVars, visionVars>>

\* setChordTarget(chord): a new tracker when chord differs from getChordTarget()
SetChordTarget ==
    \E chord \in TargetChords \cup {NoChord} :
        /\ chord # currentChord
        /\ tracker' = createStabilityTracker(now)
        /\ trackedChord' = NoChord
        /\ last' = NoFrameWork
        /\ UNCHANGED <<isRunning, video, sched, frames, frameCount, handTracker,
                       currentChord, now, snapshot, held, scoreVars, visionVars>>

-----------------------------------------------------------------------------
(* The environment of the FrameProcessor *)

\* the chord getChordTarget() returns changes: the caller's callback reads the
\* live selection, or setCallbacks installs one that returns another chord
SelectChord ==
    \E chord \in TargetChords \cup {NoChord} :
        /\ chord # currentChord
        /\ currentChord' = chord
        /\ last' = NoFrameWork
        /\ UNCHANGED <<isRunning, video, sched, frames, frameCount, handTracker,
                       now, trackedChord, snapshot, tracker, held, scoreVars, visionVars>>

\* time passes
Tick ==
    /\ now < MaxClock
    /\ now' = now + 1000
    /\ last' = NoFrameWork
    /\ UNCHANGED <<isRunning, video, sched, frames, frameCount, handTracker,
                   currentChord, trackedChord, snapshot, tracker, held, scoreVars, visionVars>>

\* a requestAnimationFrame callback fires: the one animationFrameId names, or
\* an older one that is still pending
FireAnimationFrame ==
    /\ sched.raf > 0
    /\ \E newest \in BOOLEAN, acquired \in Acquisitions, rvfcThrows \in BOOLEAN :
          /\ IF newest THEN sched.latest ELSE sched.raf > (IF sched.latest THEN 1 ELSE 0)
          /\ EnterFrame(isRunning, video,
                        [sched EXCEPT !.raf = @ - 1,
                                      !.latest = IF newest THEN FALSE ELSE @],
                        acquired, rvfcThrows)
    /\ UNCHANGED <<isRunning, video, handTracker, currentChord, now, trackedChord,
                   snapshot, tracker, held, scoreVars, visionVars>>

\* a requestVideoFrameCallback callback fires
FireVideoFrame ==
    /\ sched.rvfc > 0
    /\ \E acquired \in Acquisitions, rvfcThrows \in BOOLEAN :
          EnterFrame(isRunning, video, [sched EXCEPT !.rvfc = @ - 1],
                     acquired, rvfcThrows)
    /\ UNCHANGED <<isRunning, video, handTracker, currentChord, now, trackedChord,
                   snapshot, tracker, held, scoreVars, visionVars>>

-----------------------------------------------------------------------------
(* Scoring harness: a player forms, adjusts and releases the fingering of   *)
(* one chord; every change is scored again, as each frame does.             *)

FrettedStrings(tmpl) == {s \in Strings : tmpl[s].type = "fretted"}

OpenStrings(tmpl) == {s \in Strings : tmpl[s].type = "open"}

MutedStrings(tmpl) == {s \in Strings : tmpl[s].type = "muted"}

\* one finger at the required fret on every fretted string, nothing else
RECURSIVE ExactFrom(_, _)
ExactFrom(tmpl, s) ==
    IF s > NumStrings THEN <<>>
    ELSE IF tmpl[s].type = "fretted"
         THEN <<Finger(tmpl[s].finger, s, tmpl[s].fret, 2)>> \o ExactFrom(tmpl, s + 1)
         ELSE ExactFrom(tmpl, s + 1)

ExactFingers(tmpl) == ExactFrom(tmpl, 1)

RemoveAt(fs, i) == [j \in 1..(Len(fs) - 1) |-> IF j < i THEN fs[j] ELSE fs[j + 1]]

SlideTo(fs, i, f) == [fs EXCEPT ![i].fretIdx = f]

\* the n-th smallest member of a set of strings
NthOf(S, n) == CHOOSE x \in S : Cardinality({y \in S : y < x}) = n - 1

\* one finger at the required fret of the lowest fretted string, and MaxCrowd
\* more, at fret 0, spread over the other fretted strings
CrowdedFingers(tmpl) ==
    LET first  == NthOf(FrettedStrings(tmpl), 1)
        others == FrettedStrings(tmpl) \ {first}
    IN  <<Finger(tmpl[first].finger, first, tmpl[first].fret, 2)>> \o
        [k \in 1..MaxCrowd |->
            Finger(k, NthOf(others, ((k - 1) % Cardinality(others)) + 1), 0, 1)]

Rescore(fs) ==
    /\ fingers' = fs
    /\ result' = scoreChord(fs, getChordTemplate(template))
    /\ UNCHANGED <<template, stabVars, frameVars, visionVars>>

ScoreInit ==
    /\ template \in TemplateNames
    /\ fingers = <<>>
    /\ result = scoreChord(<<>>, getChordTemplate(template))
    /\ tracker = createStabilityTracker(0)
    /\ held = NoUpdates
    /\ FrameIdle(NoChord)
    /\ VisionIdle

FormChord ==
    /\ fingers # ExactFingers(getChordTemplate(template))
    /\ Rescore(ExactFingers(getChordTemplate(template)))

PlaceFinger ==
    /\ Len(fingers) < MaxFingers
    /\ \E s \in Strings, f \in Frets, c \in Confidences :
          Rescore(Append(fingers, Finger(Len(fingers), s, f, c)))

\* a caller hands scoreChord a list that crowds the fretted strings
CrowdFingers ==
    /\ fingers = <<>>
    /\ Cardinality(FrettedStrings(getChordTemplate(template))) >= 2
    /\ Rescore(CrowdedFingers(getChordTemplate(template)))

\* fingers are adjusted and lifted one at a time while no string is crowded
SlideFinger ==
    /\ Len(fingers) <= NumStrings
    /\ \E i \in 1..Len(fingers), f \in Frets :
          /\ f # fingers[i].fretIdx
          /\ Rescore(SlideTo(fingers, i, f))

LiftFinger ==
    /\ Len(fingers) <= NumStrings
    /\ \E i \in 1..Len(fingers) : Rescore(RemoveAt(fingers, i))

ScoreNext == FormChord \/ PlaceFinger \/ CrowdFingers \/ SlideFinger \/ LiftFinger

SpecScore == ScoreInit /\ [][ScoreNext]_vars

-----------------------------------------------------------------------------
(* Stability harness: one tracker fed a sequence of scores whose timestamps  *)
(* never decrease (the timestamp parameter of updateStability).             *)

Times == {t \in 0..MaxTime : t % 500 = 0}

TrackerScores == {0, Threshold - 1, Threshold, ScoreOne}

NothingScored ==
    /\ template = "E"
    /\ fingers = <<>>
    /\ result = scoreChord(<<>>, getChordTemplate("E"))

ScoreIdle ==
    /\ NothingScored
    /\ VisionIdle

StabInit ==
    /\ ScoreIdle
    /\ \E created \in Times : tracker = createStabilityTracker(created)
    /\ held = NoUpdates
    /\ FrameIdle(NoChord)

\* updateStability(tracker, newScore, timestamp) with a finite score
UpdateScore ==
    \E newScore \in TrackerScores, ts \in Times :
        /\ ts >= held.lastTs
        /\ tracker' = updateStability(tracker, newScore, ts)
        /\ held' = [ lastTs |-> ts,
                     below |-> newScore < Threshold,
                     since |-> IF newScore < Threshold THEN -1
                               ELSE IF held.since >= 0 THEN held.since ELSE ts ]
        /\ UNCHANGED <<scoreVars, visionVars, frameVars>>

\* updateStability with a score that is not a finite number: the early return
UpdateNotFinite ==
    \E ts \in Times :
        /\ ts >= held.lastTs
        /\ held' = [lastTs |-> ts, below |-> FALSE, since |-> -1]
        /\ UNCHANGED <<tracker, scoreVars, visionVars, frameVars>>

\* createStabilityTracker(): a fresh tracker replaces the old one
NewTracker ==
    \E created \in Times :
        /\ tracker' = createStabilityTracker(created)
        /\ held' = NoUpdates
        /\ UNCHANGED <<scoreVars, visionVars, frameVars>>

StabNext == UpdateScore \/ UpdateNotFinite \/ NewTracker

SpecStab == StabInit /\ [][StabNext]_vars

-----------------------------------------------------------------------------
(* FrameProcessor: processFrame after its awaits *)

\* HandTracker.detect once the landmarker exists: detectForVideo finds hands
\* or none (none also when it throws) and filters the keypoints of each
DetectHands(ht, hands) ==
    [ht EXCEPT !.filterPrimed = @ \/ hands]

AwaitDetect(hands) == IF hands THEN "detectHands" ELSE "detectNone"

\* `await imageDataToImageBitmap` settles; processFrame runs on to the await
\* of handTracker.detect, which first awaits initialize() when the tracker is
\* not initialized.  outcome: "throw" (the conversion rejected),
\* "estimateThrows" or "ok".
ResumeConvert ==
    \E i \in Slots, outcome \in {"throw", "estimateThrows", "ok"},
       rvfcThrows \in BOOLEAN, hands \in BOOLEAN :
        /\ frames[i] = "convert"
        /\ CASE outcome = "throw" ->
                  /\ EndFrame(TRUE, FALSE, FALSE, isRunning, video,
                              rvfcThrows, sched, [frames EXCEPT ![i] = IdleFrame])
                  /\ UNCHANGED handTracker
             [] outcome = "estimateThrows" ->
                  /\ EndFrame(TRUE, TRUE, FALSE, isRunning, video,
                              rvfcThrows, sched, [frames EXCEPT ![i] = IdleFrame])
                  /\ UNCHANGED handTracker
             [] OTHER ->
                  /\ IF handTracker.isInitialized
                     THEN /\ frames' = [frames EXCEPT ![i] = AwaitDetect(hands)]
                          /\ handTracker' = DetectHands(handTracker, hands)
                     ELSE /\ frames' = [frames EXCEPT ![i] = "init"]
                          /\ UNCHANGED handTracker
                  /\ last' = [NoFrameWork EXCEPT !.ranStep = TRUE]
                  /\ UNCHANGED <<sched, frameCount>>
        /\ UNCHANGED <<isRunning, video, currentChord, now, trackedChord, snapshot,
                       tracker, held, scoreVars, visionVars>>

\* the initialize() awaited inside detect settles: the landmarker is created
\* and detection runs, or initialize throws and detect rejects
ResumeInit ==
    \E i \in Slots, ok \in BOOLEAN, rvfcThrows \in BOOLEAN, hands \in BOOLEAN :
        /\ frames[i] = "init"
        /\ IF ok
           THEN /\ handTracker' =
                     DetectHands([handTracker EXCEPT !.isInitialized = TRUE], hands)
                /\ frames' = [frames EXCEPT ![i] = AwaitDetect(hands)]
                /\ last' = [NoFrameWork EXCEPT !.ranStep = TRUE]
                /\ UNCHANGED <<sched, frameCount>>
           ELSE /\ EndFrame(TRUE, FALSE, FALSE, isRunning, video,
                            rvfcThrows, sched, [frames EXCEPT ![i] = IdleFrame])
                /\ UNCHANGED handTracker
        /\ UNCHANGED <<isRunning, video, currentChord, now, trackedChord, snapshot,
                       tracker, held, scoreVars, visionVars>>

\* the finger lists mapToStringsAndFrets may hand to the matcher for a chord:
\* the chord fingered exactly, or with its first finger on the open position
FrameFingerLists(tmpl) ==
    {ExactFingers(tmpl), SlideTo(ExactFingers(tmpl), 1, 0)}

\* the mapper's output for a frame: empty unless the fretboard estimate of the
\* frame carries a homography and the detection found a hand
MapperOutputs(fb, hands) ==
    IF fb >= HomographyFloor /\ hands
    THEN {<<>>} \cup UNION {FrameFingerLists(getChordTemplate(c)) : c \in TargetChords}
    ELSE {<<>>}

\* matchChord(fingerAssignments, template, this.stabilityTracker).stabilityMs
\* is the tracker's stableMs after updateStability(tracker, score, Date.now())
MatchTracker(fa, chord) ==
    updateStability(tracker, scoreChord(fa, getChordTemplate(chord)).score, now)

\* `await handTracker.detect` settles; processFrame runs to its end: roles,
\* mapping, matching, the observer callback, frameCount++, scheduleNextFrame.
\* fb is the confidence estimateFretboard gave this frame, fa the mapper's
\* output; throws: "no", "step" (an exception in a step before the matcher)
\* or "callback" (the observer callback throws).
ResumeDetect ==
    \E i \in Slots, throws \in {"no", "step", "callback"}, rvfcThrows \in BOOLEAN,
       fb \in FbConfidences :
      \E fa \in MapperOutputs(fb, frames[i] = "detectHands") :
        /\ frames[i] \in {"detectNone", "detectHands"}
        /\ IF throws = "step"
           THEN /\ EndFrame(TRUE, TRUE, FALSE, isRunning, video,
                            rvfcThrows, sched, [frames EXCEPT ![i] = IdleFrame])
                /\ UNCHANGED <<tracker, trackedChord, snapshot>>
           ELSE /\ EndFrame(TRUE, TRUE, TRUE, isRunning, video,
                            rvfcThrows, sched, [frames EXCEPT ![i] = IdleFrame])
                /\ IF currentChord # NoChord /\ fa # <<>>
                   THEN /\ tracker' = MatchTracker(fa, currentChord)
                        /\ trackedChord' = currentChord
                        /\ snapshot' =
                             [ chordTarget |-> currentChord,
                               carriedMs |->
                                 IF /\ trackedChord \notin {NoChord, currentChord}
                                    /\ MatchTracker(fa, currentChord).score >= Threshold
                                 THEN tracker.stableMs ELSE 0,
                               fretboard |-> fb ]
                   ELSE /\ snapshot' = [NoSnapshot EXCEPT !.fretboard = fb]
                        /\ UNCHANGED <<tracker, trackedChord>>
        /\ UNCHANGED <<isRunning, video, handTracker, currentChord, now, held,
                       scoreVars, visionVars>>

-----------------------------------------------------------------------------
(* The frame loop with its environment *)

\* The processor as the practice page builds it: constructed for the chord
\* that is selected at the time, then initialized, started, stopped, reset and
\* disposed in any order while its callbacks fire and its awaits settle.
Init ==
    /\ ScoreIdle
    /\ tracker = createStabilityTracker(0)
    /\ held = NoUpdates
    /\ \E chord \in TargetChords \cup {NoChord} : FrameIdle(chord)

Next ==
    \/ Start
    \/ Stop
    \/ Dispose
    \/ Reset
    \/ Initialize
    \/ SetChordTarget
    \/ FireAnimationFrame
    \/ FireVideoFrame
    \/ ResumeConvert
    \/ ResumeInit
    \/ ResumeDetect

Spec == Init /\ [][Next]_vars

\* the same, with every registered callback eventually firing and every
\* awaited step eventually settling
SpecLive ==
    /\ Spec
    /\ WF_vars(FireAnimationFrame)
    /\ WF_vars(FireVideoFrame)
    /\ WF_vars(ResumeConvert)
    /\ WF_vars(ResumeInit)
    /\ WF_vars(ResumeDetect)

-----------------------------------------------------------------------------
(* One running frame loop while the player changes the target chord *)

\* after initialize() and start() on an element without
\* requestVideoFrameCallback, whose first frame had no data yet
ChordInit ==
    /\ ScoreIdle
    /\ tracker = createStabilityTracker(0)
    /\ held = NoUpdates
    /\ isRunning = TRUE
    /\ video = "raf"
    /\ sched = [hasId |-> TRUE, latest |-> TRUE, raf |-> 1, rvfc |-> 0]
    /\ frames = [i \in Slots |-> IdleFrame]
    /\ frameCount = 0
    /\ handTracker = [isInitialized |-> TRUE, filterPrimed |-> FALSE]
    /\ currentChord = NoChord
    /\ now = 0
    /\ trackedChord = NoChord
    /\ snapshot = NoSnapshot
    /\ last = [ended |-> TRUE, scheduled |-> 1, ranStep |-> FALSE, emitted |-> FALSE]

ChordNext ==
    \/ FireAnimationFrame
    \/ ResumeConvert
    \/ ResumeDetect
    \/ SelectChord
    \/ SetChordTarget
    \/ Reset
    \/ Tick

SpecChord == ChordInit /\ [][ChordNext]_vars

-----------------------------------------------------------------------------
(* homography.ts: exact arithmetic                                          *)
(*                                                                          *)
(* The code computes in IEEE doubles.  The model computes the same          *)
(* expressions over exact fractions <<numerator, denominator>> in lowest    *)
(* terms with a positive denominator; rounding is not modelled.  Every      *)
(* non-zero fraction the model can hold is far above 1e-10 in magnitude, so *)
(* the code's tests Math.abs(v) < 1e-10 are tests for zero.                 *)

RECURSIVE Gcd(_, _)
Gcd(a, b) == IF b = 0 THEN a ELSE Gcd(b, a % b)

Q(n, d) ==
    LET g == Gcd(Abs(n), Abs(d))
        s == IF d < 0 THEN -1 ELSE 1
    IN  <<(s * n) \div g, (s * d) \div g>>

QInt(n) == <<n, 1>>
QZero == QInt(0)
QUnit == QInt(1)
\* the operands are bound to their values before the arithmetic
QAdd(a, b) ==
    CHOOSE q \in {Q(x[1] * y[2] + y[1] * x[2], x[2] * y[2]) : x \in {a}, y \in {b}} : TRUE
QSub(a, b) ==
    CHOOSE q \in {Q(x[1] * y[2] - y[1] * x[2], x[2] * y[2]) : x \in {a}, y \in {b}} : TRUE
QMul(a, b) ==
    CHOOSE q \in {Q(x[1] * y[1], x[2] * y[2]) : x \in {a}, y \in {b}} : TRUE
QDiv(a, b) ==
    CHOOSE q \in {Q(x[1] * y[2], x[2] * y[1]) : x \in {a}, y \in {b}} : TRUE
QNeg(a) == CHOOSE q \in {<<-x[1], x[2]>> : x \in {a}} : TRUE
QAbs(a) == CHOOSE q \in {<<Abs(x[1]), x[2]>> : x \in {a}} : TRUE
QLess(a, b) == \E x \in {a}, y \in {b} : x[1] * y[2] < y[1] * x[2]
\* Math.abs(v) < 1e-10
IsTiny(a) == a[1] = 0

\* the sequence <<Op(k), ..., Op(n)>>, built element by element
RECURSIVE MkSeq(_, _, _)
MkSeq(Op(_), first, final) ==
    IF first > final THEN <<>>
    ELSE <<Op(first)>> \o MkSeq(Op, first + 1, final)

\* the element of a one-element set; {e(v) : v \in {w}} computes w once and
\* e from its value
Only(S) == CHOOSE v \in S : TRUE

RECURSIVE QSum(_)
QSum(qs) == IF qs = <<>> THEN QZero ELSE QAdd(Head(qs), QSum(Tail(qs)))

-----------------------------------------------------------------------------
(* homography.ts *)

Point(x, y) == [x |-> x, y |-> y]
PointInt(x, y) == Point(QInt(x), QInt(y))

\* solveLinearSystem: the row holding the largest |A[k][i]|, k = from..n, the
\* first such row on ties
RECURSIVE PivotRow(_, _, _, _)
PivotRow(aug, i, k, maxRow) ==
    IF k > Len(aug) THEN maxRow
    ELSE PivotRow(aug, i, k + 1,
                  IF QLess(QAbs(aug[maxRow][i]), QAbs(aug[k][i])) THEN k ELSE maxRow)

SwapRows(aug, i, m) ==
    MkSeq(LAMBDA r : IF r = i THEN aug[m] ELSE IF r = m THEN aug[i] ELSE aug[r],
          1, Len(aug))

\* solveLinearSystem: the elimination of column i from the rows below row i
Eliminate(aug, i) ==
    [k \in 1..Len(aug) |->
        IF k <= i THEN aug[k]
        ELSE Only({[j \in 1..(Len(aug) + 1) |->
                       IF j < i THEN aug[k][j]
                       ELSE QSub(aug[k][j], QMul(factor, aug[i][j]))] :
                      factor \in {QDiv(aug[k][i], aug[i][i])}})]

\* solveLinearSystem: forward elimination with partial pivoting from column i
RECURSIVE ForwardEliminate(_, _)
ForwardEliminate(aug, i) ==
    IF i > Len(aug) THEN [singular |-> FALSE, aug |-> aug]
    ELSE Only({IF IsTiny(swapped[i][i])
               THEN [singular |-> TRUE, aug |-> swapped]
               ELSE Only({ForwardEliminate(next, i + 1) :
                              next \in {Eliminate(swapped, i)}}) :
                   swapped \in {SwapRows(aug, i, PivotRow(aug, i, i + 1, i))}})

\* solveLinearSystem: one step of the back substitution, x[i] from x[i+1..n]
SolveRow(aug, i, below) ==
    Only({IF ~IsTiny(aug[i][i]) THEN QDiv(rhs, aug[i][i]) ELSE rhs :
              rhs \in {QSub(aug[i][Len(aug) + 1],
                            QSum([j \in 1..(Len(aug) - i) |->
                                     QMul(aug[i][i + j], below[j])]))}})

\* solveLinearSystem: back substitution, the solution entries x[i..n], from
\* the last row upwards
RECURSIVE BackSubstitute(_, _)
BackSubstitute(aug, i) ==
    IF i > Len(aug) THEN <<>>
    ELSE Only({<<SolveRow(aug, i, below)>> \o below :
                   below \in {BackSubstitute(aug, i + 1)}})

IdentitySolution ==
    <<QUnit, QZero, QZero, QZero, QUnit, QZero, QZero, QZero>>

solveLinearSystem(A, b) ==
    Only({IF fwd.singular THEN IdentitySolution
          ELSE BackSubstitute(fwd.aug, 1) :
              fwd \in {ForwardEliminate([r \in 1..Len(A) |-> A[r] \o <<b[r]>>], 1)}})

\* normalizePoints: Math.sqrt(dx*dx + dy*dy) / Math.sqrt(2).  The point lists
\* of the model keep |dx| = |dy| for every point (the points lie on the two
\* diagonals through their centroid), where the distance is |dx| * sqrt(2)
\* and Math.sqrt(2) / avgDist is the fraction 1 / avg|dx|.
DistanceOverRoot2(dx, dy) == QAbs(dx)

\* normalizePoints: the centroid
Centroid(points) ==
    Point(QDiv(QSum([i \in 1..Len(points) |-> points[i].x]), QInt(Len(points))),
          QDiv(QSum([i \in 1..Len(points) |-> points[i].y]), QInt(Len(points))))

OnDiagonals(points) ==
    \E c \in {Centroid(points)} :
        \A i \in 1..Len(points) :
            QAbs(QSub(points[i].x, c.x)) = QAbs(QSub(points[i].y, c.y))

\* normalizePoints: the scale, from the centroid c
NormalScale(points, c) ==
    Only({IF ~IsTiny(avgOverRoot2) THEN QDiv(QUnit, avgOverRoot2) ELSE QUnit :
              avgOverRoot2 \in
                  {QDiv(QSum([i \in 1..Len(points) |->
                                 DistanceOverRoot2(QSub(points[i].x, c.x),
                                                   QSub(points[i].y, c.y))]),
                        QInt(Len(points)))}})

normalizePoints(points) ==
    Only({Only({[points |-> [i \in 1..Len(points) |->
                                Point(QMul(QSub(points[i].x, c.x), scale),
                                      QMul(QSub(points[i].y, c.y), scale))],
                 scaleX |-> scale,
                 scaleY |-> scale,
                 tx |-> QMul(QNeg(c.x), scale),
                 ty |-> QMul(QNeg(c.y), scale)] :
                    scale \in {NormalScale(points, c)}}) :
              c \in {Centroid(points)}})

\* the inverse of the source transform: 1/scaleX, 1/scaleY, -tx/scaleX,
\* -ty/scaleY
InverseTransform(srcT) ==
    [scaleX |-> QDiv(QUnit, srcT.scaleX),
     scaleY |-> QDiv(QUnit, srcT.scaleY),
     tx |-> QDiv(QNeg(srcT.tx), srcT.scaleX),
     ty |-> QDiv(QNeg(srcT.ty), srcT.scaleY)]

\* the de-normalisation without the H[r][2] term of its last column
Denormalize_NoOffset(h, srcT, dstT) ==
    Only({[r \in 1..3 |->
              <<QMul(H[r][1], IF r = 2 THEN inv.scaleY ELSE inv.scaleX),
                QMul(H[r][2], IF r = 1 THEN inv.scaleX ELSE inv.scaleY),
                QAdd(QMul(H[r][1], inv.tx), QMul(H[r][2], inv.ty))>>] :
              H \in {<<<<QMul(h[1], dstT.scaleX), QMul(h[2], dstT.scaleX)>>,
                       <<QMul(h[4], dstT.scaleY), QMul(h[5], dstT.scaleY)>>,
                       <<h[7], h[8]>>>>},
              inv \in {[scaleX |-> QDiv(QUnit, srcT.scaleX),
                        scaleY |-> QDiv(QUnit, srcT.scaleY),
                        tx |-> QDiv(QNeg(srcT.tx), srcT.scaleX),
                        ty |-> QDiv(QNeg(srcT.ty), srcT.scaleY)]}})

\* the de-normalisation of computeHomographyFromQuadrilateral, as written
Denormalize(h, srcT, dstT) ==
    Only({[r \in 1..3 |->
              <<QMul(H[r][1], IF r = 2 THEN inv.scaleY ELSE inv.scaleX),
                QMul(H[r][2], IF r = 1 THEN inv.scaleX ELSE inv.scaleY),
                QAdd(QAdd(QMul(H[r][1], inv.tx), QMul(H[r][2], inv.ty)),
                     H[r][3])>>] :
              H \in {<<<<QMul(h[1], dstT.scaleX), QMul(h[2], dstT.scaleX),
                         QAdd(QMul(h[3], dstT.scaleX), dstT.tx)>>,
                       <<QMul(h[4], dstT.scaleY), QMul(h[5], dstT.scaleY),
                         QAdd(QMul(h[6], dstT.scaleY), dstT.ty)>>,
                       <<h[7], h[8], QUnit>>>>},
              inv \in {InverseTransform(srcT)}})

\* the two rows of A for correspondence i: (x, y) of the source, (u, v) of
\* the destination
RowX(p, q) ==
    <<p.x, p.y, QUnit, QZero, QZero, QZero,
      QMul(QNeg(q.x), p.x), QMul(QNeg(q.x), p.y)>>

RowY(p, q) ==
    <<QZero, QZero, QZero, p.x, p.y, QUnit,
      QMul(QNeg(q.y), p.x), QMul(QNeg(q.y), p.y)>>

computeHomographyFromQuadrilateral(src, dst) ==
    Only({Only({Denormalize(h, srcN, dstN) :
                    h \in {solveLinearSystem(
                               [r \in 1..8 |->
                                   IF r % 2 = 1
                                   THEN RowX(srcN.points[(r + 1) \div 2],
                                             dstN.points[(r + 1) \div 2])
                                   ELSE RowY(srcN.points[r \div 2],
                                             dstN.points[r \div 2])],
                               [r \in 1..8 |->
                                   IF r % 2 = 1 THEN dstN.points[(r + 1) \div 2].x
                                   ELSE dstN.points[r \div 2].y])}}) :
              srcN \in {normalizePoints(src)},
              dstN \in {normalizePoints(dst)}})

Thrown == [status |-> "thrown", value |-> <<>>]
Returned(v) == [status |-> "returned", value |-> v]

\* computeHomography, accepting any two lists of at least four points
computeHomography_AtLeastFour(src, dst) ==
    IF Len(src) < 4 \/ Len(dst) < 4 THEN Thrown
    ELSE Returned(computeHomographyFromQuadrilateral(src, dst))

\* computeHomography, with the outcome of the call: the Error it throws or
\* the matrix it returns
computeHomography(src, dst) ==
    IF Len(src) # 4 \/ Len(dst) # 4 THEN Thrown
    ELSE Returned(computeHomographyFromQuadrilateral(src, dst))

multiplyMatrixPoint(H, p) ==
    Only({IF IsTiny(w) THEN Point(QZero, QZero)
          ELSE Point(QDiv(QAdd(QAdd(QMul(H[1][1], p.x), QMul(H[1][2], p.y)), H[1][3]), w),
                     QDiv(QAdd(QAdd(QMul(H[2][1], p.x), QMul(H[2][2], p.y)), H[2][3]), w)) :
              w \in {QAdd(QAdd(QMul(H[3][1], p.x), QMul(H[3][2], p.y)), H[3][3])}})

-----------------------------------------------------------------------------
(* Calibration harness: computeHomography is called once on a pair of point *)
(* lists.                                                                   *)

\* the corners of the axis-aligned square with corner (o, o) and side a, in
\* the order top-left, top-right, bottom-left, bottom-right
Square(o, a) ==
    <<PointInt(o, o), PointInt(o + a, o), PointInt(o, o + a),
      PointInt(o + a, o + a)>>

\* the same corners in the order around its perimeter
Perimeter(o, a) ==
    <<PointInt(o, o), PointInt(o + a, o), PointInt(o + a, o + a),
      PointInt(o, o + a)>>

UnitSquare == Square(0, 1)

Squares ==
    {Square(0, 1), Square(0, 100), Square(0, 200), Square(10, 100),
     Perimeter(0, 1), Perimeter(0, 100), Perimeter(10, 100)}

\* four coincident points, and four collinear points
Degenerate ==
    {<<PointInt(5, 5), PointInt(5, 5), PointInt(5, 5), PointInt(5, 5)>>,
     <<PointInt(0, 0), PointInt(1, 1), PointInt(2, 2), PointInt(3, 3)>>,
     <<PointInt(0, 0), PointInt(0, 0), PointInt(2, 2), PointInt(2, 2)>>}

\* lists that do not hold four points
WrongLength ==
    {<<>>,
     <<PointInt(0, 0), PointInt(1, 0), PointInt(0, 1)>>,
     <<PointInt(0, 0), PointInt(1, 0), PointInt(0, 1), PointInt(1, 1),
       PointInt(2, 2)>>}

PointLists ==
    {ps \in Squares \cup Degenerate : OnDiagonals(ps)} \cup WrongLength

HomographyInit ==
    /\ NothingScored
    /\ tracker = createStabilityTracker(0)
    /\ held = NoUpdates
    /\ FrameIdle(NoChord)
    /\ FretboardIdle
    /\ HandsIdle
    /\ MapperIdle
    /\ AssignerIdle
    /\ WizardIdle
    /\ srcPoints \in PointLists
    /\ dstPoints \in PointLists
    /\ homography = NotCalled

ComputeHomography ==
    /\ homography = NotCalled
    /\ homography' = computeHomography(srcPoints, dstPoints)
    /\ UNCHANGED <<srcPoints, dstPoints, imageData, manualPoints, lineResult,
                   estimate, detections, mapper, assigner, wizard, scoreVars,
                   stabVars, frameVars>>

HomographyNext == ComputeHomography

SpecHomography == HomographyInit /\ [][HomographyNext]_vars

-----------------------------------------------------------------------------
(* HoughDetector.ts: calculateConfidence and checkLineRegularity            *)
(*                                                                          *)
(* A confidence is a number or NaN: [nan |-> FALSE, q |-> the fraction] or  *)
(* NaN.  Every comparison with NaN is false, as in the code.                *)

Num(q) == [nan |-> FALSE, q |-> q]
NaN == [nan |-> TRUE, q |-> QZero]
LessThan(c, q) == ~c.nan /\ QLess(c.q, q)
GreaterThan(c, q) == ~c.nan /\ QLess(q, c.q)

QMin(a, b) == IF QLess(b, a) THEN b ELSE a
QMax(a, b) == IF QLess(a, b) THEN b ELSE a

\* the filters of calculateConfidence: |start.y - end.y| < 5, |start.x - end.x| < 5
AxisTolerance == 5
IsHorizontalLine(line) == Abs(line.start.y - line.end.y) < AxisTolerance
IsVerticalLine(line) == Abs(line.start.x - line.end.x) < AxisTolerance

RECURSIVE Insert(_, _)
Insert(y, sorted) ==
    IF sorted = <<>> THEN <<y>>
    ELSE IF y < Head(sorted) THEN <<y>> \o sorted
    ELSE <<Head(sorted)>> \o Insert(y, Tail(sorted))

\* [...lines].sort((a, b) => a.start.y - b.start.y), as the start.y values
RECURSIVE SortedRows(_)
SortedRows(lines) ==
    IF lines = <<>> THEN <<>>
    ELSE Insert(Head(lines).start.y, SortedRows(Tail(lines)))

Spacings(ys) == MkSeq(LAMBDA i : QInt(ys[i + 1] - ys[i]), 1, Len(ys) - 1)

\* the variance of the spacings of three or more lines
SpacingVariance(lines) ==
    Only({Only({QDiv(QSum([i \in 1..Len(spacings) |->
                              QMul(QSub(spacings[i], mean),
                                   QSub(spacings[i], mean))]),
                     QInt(Len(spacings))) :
                    mean \in {QDiv(QSum(spacings), QInt(Len(spacings)))}}) :
              spacings \in {Spacings(SortedRows(lines))}})

IsSquare(k) == \E r \in 0..k : r * r = k
HasExactRoot(q) == IsSquare(q[1]) /\ IsSquare(q[2])
\* Math.sqrt, of a fraction whose root is a fraction
QSqrt(q) ==
    Only({<<CHOOSE r \in 0..v[1] : r * r = v[1], CHOOSE r \in 0..v[2] : r * r = v[2]>> :
              v \in {q}})

checkLineRegularity(lines) ==
    IF Len(lines) < 3 THEN Num(QZero)
    ELSE Only({\* all the lines on one row: 0 / 0, and Math.max(0, NaN) is NaN
               IF mean = QZero THEN NaN
               ELSE Num(QMax(QZero,
                             QSub(QUnit, QDiv(QSqrt(SpacingVariance(lines)), mean)))) :
                   mean \in {Only({QDiv(QSum(spacings), QInt(Len(spacings))) :
                                      spacings \in {Spacings(SortedRows(lines))}})}})

calculateConfidence(lines) ==
    IF Len(lines) < 4 THEN Num(QZero)
    ELSE Only({IF Len(horizontalLines) < 2 \/ Len(verticalLines) < 3
               THEN Num(Q(3, 10))
               ELSE Only({IF regularityScore.nan THEN NaN
                          ELSE Num(QAdd(QMul(QMin(Q(Len(lines), 20), QUnit), Q(6, 10)),
                                        QMul(regularityScore.q, Q(4, 10)))) :
                              regularityScore \in
                                  {checkLineRegularity(horizontalLines)}}) :
                   horizontalLines \in {SelectSeq(lines, IsHorizontalLine)},
                   verticalLines \in {SelectSeq(lines, IsVerticalLine)}})

\* detectLines.  The image is held as the edge runs detectHorizontalLines and
\* detectVerticalLines find in it, in the order detectLines pushes them.
detectLines(image) ==
    IF image.kind # "pixels"
    THEN [lines |-> <<>>, confidence |-> Num(QZero)]
    ELSE [lines |-> image.lines, confidence |-> calculateConfidence(image.lines)]

-----------------------------------------------------------------------------
(* Fretboard harness: detectLines and estimateFretboard are called once on  *)
(* an image.                                                                *)

MaxRow == 5          \* the rows that may hold a horizontal run
MaxHorizontal == 4   \* horizontal runs in an image
MaxVertical == 16    \* long vertical runs in an image
MaxShort == 3        \* short vertical runs in an image

\* a run along row y, a run down column x, and a run down column x that is
\* shorter than five pixels and starts on row y
LongRun == 8
ShortRun == 4
HRun(y) == [start |-> [x |-> 0, y |-> y], end |-> [x |-> LongRun, y |-> y]]
VRun(x) == [start |-> [x |-> x, y |-> 0], end |-> [x |-> x, y |-> LongRun]]
ShortVRun(x, y) ==
    [start |-> [x |-> x, y |-> y], end |-> [x |-> x, y |-> y + ShortRun]]

RECURSIVE RowsOf(_)
RowsOf(S) ==
    IF S = {} THEN <<>>
    ELSE LET y == CHOOSE r \in S : \A o \in S : r <= o
         IN  <<HRun(y)>> \o RowsOf(S \ {y})

\* the runs of an image: rows by increasing y, then columns by increasing x
Runs(rows, longs, shorts) ==
    RowsOf(rows)
        \o MkSeq(LAMBDA x : ShortVRun(x, 1), 1, shorts)
        \o MkSeq(LAMBDA x : VRun(MaxShort + x), 1, longs)

\* the images whose spacing variance has a root that is a fraction
RunLists ==
    LET all == {Runs(rows, longs, shorts) :
                    rows \in {S \in SUBSET (0..MaxRow) : Cardinality(S) <= MaxHorizontal},
                    longs \in 0..MaxVertical,
                    shorts \in 0..MaxShort}
    IN  {runs \in all :
            \A horizontalLines \in {SelectSeq(runs, IsHorizontalLine)} :
                Len(horizontalLines) >= 3 =>
                    \E variance \in {SpacingVariance(horizontalLines)} :
                        HasExactRoot(variance)}

Images ==
    {NullImage, [kind |-> "empty", lines |-> <<>>]}
        \cup {[kind |-> "pixels", lines |-> runs] : runs \in RunLists}

-----------------------------------------------------------------------------
(* FretboardLocalizer: estimateFretboard *)

FretboardResult(hasHomography, confidence, needsManualCalibration) ==
    [hasHomography |-> hasHomography,
     confidence |-> confidence,
     needsManualCalibration |-> needsManualCalibration]

\* the result without a homography: { homography: null, ..., confidence,
\* needsManualCalibration: true }
Unlocated(confidence) == FretboardResult(FALSE, confidence, TRUE)

\* the flag on a result of the detection with its threshold at 0.6
NeedsManualCalibration_Below06(confidence) == LessThan(confidence, Q(6, 10))

\* needsManualCalibration: lineResult.confidence < 0.7
NeedsManualCalibration(confidence) == LessThan(confidence, Q(7, 10))

\* the reference fret of projectFretLinesFromPoints, and the frets it adds
ReferenceFret == 3
LastFret == 5

\* projectFretLinesFromPoints, for the points nutLeft, nutRight, fretLeft,
\* fretRight that estimateFromManualPoints has validated: the nut, the
\* reference fret, then frets 1, 2, 4 and 5
projectFretLinesFromPoints(points) ==
    Only({IF ~QLess(QZero, spacing)
          THEN <<[start |-> points[1], end |-> points[2]]>>
          ELSE <<[start |-> points[1], end |-> points[2]],
                 [start |-> points[3], end |-> points[4]]>>
               \o [k \in 1..(LastFret - 1) |->
                      Only({[start |-> Point(points[1].x, y),
                             end |-> Point(points[2].x, y)] :
                               y \in {QAdd(points[1].y,
                                           QMul(QDiv(spacing, QInt(ReferenceFret)),
                                                QInt(IF k < ReferenceFret THEN k
                                                     ELSE k + 1)))}})] :
              spacing \in {QSub(points[3].y, points[1].y)}})

\* the result of a manual calibration, with its fret lines
Calibrated(frets) ==
    [hasHomography |-> TRUE, confidence |-> Num(Q(9, 10)),
     needsManualCalibration |-> FALSE, frets |-> frets]

\* estimateFromManualPoints; points.invalid are the points that are missing
\* or have a coordinate that is not a finite number
estimateFromManualPoints(points) ==
    IF points.invalid # {} THEN Returned(Unlocated(Num(QZero)))
    ELSE LET solved == computeHomography(points.points, UnitSquare)
         IN  IF solved.status = "thrown" THEN Thrown
             ELSE Returned(Calibrated(projectFretLinesFromPoints(points.points)))

\* estimateFretboard.  estimateHomographyFromLines returns the identity or
\* the matrix computeHomography finds for the four corners of the region of
\* interest; the string and fret lines are not part of the model.
estimateFretboard(image, points) ==
    IF image.kind = "null" THEN Returned(Unlocated(Num(QZero)))
    ELSE IF points.given THEN estimateFromManualPoints(points)
    ELSE Only({IF LessThan(detected.confidence, Q(6, 10))
               THEN Returned(Unlocated(detected.confidence))
               ELSE Returned(FretboardResult(TRUE, detected.confidence,
                                 NeedsManualCalibration(detected.confidence))) :
                   detected \in {detectLines(image)}})

ManualPoints(points, invalid) ==
    [given |-> TRUE, points |-> points, invalid |-> invalid]

ManualChoices ==
    {NoManualPoints,
     ManualPoints(Square(10, 100), {}),
     ManualPoints(Square(10, 100), {3}),
     ManualPoints(<<PointInt(5, 5), PointInt(5, 5), PointInt(5, 5),
                    PointInt(5, 5)>>, {})}

FretboardInit ==
    /\ NothingScored
    /\ tracker = createStabilityTracker(0)
    /\ held = NoUpdates
    /\ FrameIdle(NoChord)
    /\ CalibrationIdle
    /\ HandsIdle
    /\ MapperIdle
    /\ AssignerIdle
    /\ WizardIdle
    /\ imageData \in Images
    /\ manualPoints \in ManualChoices
    /\ lineResult = NotCalled
    /\ estimate = NotCalled

DetectLines ==
    /\ lineResult = NotCalled
    /\ lineResult' = Returned(detectLines(imageData))
    /\ UNCHANGED <<imageData, manualPoints, estimate, srcPoints, dstPoints,
                   homography, detections, mapper, assigner, wizard, scoreVars,
                   stabVars, frameVars>>

EstimateFretboard ==
    /\ estimate = NotCalled
    /\ estimate' = estimateFretboard(imageData, manualPoints)
    /\ UNCHANGED <<imageData, manualPoints, lineResult, srcPoints, dstPoints,
                   homography, detections, mapper, assigner, wizard, scoreVars,
                   stabVars, frameVars>>

FretboardNext ==
    \/ DetectLines
    \/ EstimateFretboard

SpecFretboard == FretboardInit /\ [][FretboardNext]_vars

-----------------------------------------------------------------------------
(* ChordMatcher: matchChord *)

\* matchChord(fingers, template, stabilityTracker) at the time Date.now() =
\* nowMs: the result, and the tracker as the call leaves it
matchChord(fs, tmpl, trk, nowMs) ==
    LET matchResult == scoreChord(fs, tmpl)
        updatedTracker == updateStability(trk, matchResult.score, nowMs)
    IN  [result |-> [matchResult EXCEPT !.stabilityMs = updatedTracker.stableMs],
         tracker |-> updatedTracker]

\* Matching harness: one tracker, created at time 0, is handed to matchChord
\* with one fingering of the template after another while the clock advances.
MatchFingerLists(tmpl) ==
    LET exact == ExactFingers(tmpl)
    IN  {<<>>, exact}
            \cup (IF Len(exact) >= 1 THEN {SlideTo(exact, 1, 0)} ELSE {})
            \cup (IF Cardinality(FrettedStrings(tmpl)) >= 2
                  THEN {CrowdedFingers(tmpl)} ELSE {})

MatchInit ==
    /\ template \in TemplateNames
    /\ fingers = <<>>
    /\ result = scoreChord(<<>>, getChordTemplate(template))
    /\ tracker = createStabilityTracker(0)
    /\ held = NoUpdates
    /\ FrameIdle(NoChord)
    /\ VisionIdle

MatchChord ==
    \E fs \in MatchFingerLists(getChordTemplate(template)), dt \in {0, 1000} :
        /\ now + dt <= MaxTime
        /\ LET matched == matchChord(fs, getChordTemplate(template), tracker,
                                     now + dt)
           IN  /\ fingers' = fs
               /\ result' = matched.result
               /\ tracker' = matched.tracker
        /\ now' = now + dt
        /\ UNCHANGED <<template, held, isRunning, video, sched, frames,
                       frameCount, handTracker, currentChord, trackedChord,
                       snapshot, last, visionVars>>

MatchNext == MatchChord

SpecMatch == MatchInit /\ [][MatchNext]_vars

-----------------------------------------------------------------------------
(* OneEuroFilter.ts and HandTracker.detect                                  *)
(*                                                                          *)
(* Coordinates and filter states are exact fractions.  Math.PI is held as   *)
(* the fraction 22/7: the smoothing factors differ from the code's in the   *)
(* third digit, the control flow of the filters does not.                   *)

Pi == Q(22, 7)

\* the HandKeypointFilter configuration of the HandTracker constructor
FilterMinCutoff == QUnit
FilterBeta == Q(1, 2)
FilterDCutoff == QUnit

\* new OneEuroFilter(config)
NewOneEuroFilter == [x |-> QZero, dx |-> QZero, lastTime |-> 0]

\* OneEuroFilter.alpha
Alpha(cutoff, dt) ==
    QDiv(QUnit, QAdd(QUnit, QDiv(QDiv(QUnit, QMul(QMul(QInt(2), Pi), cutoff)), dt)))

\* OneEuroFilter.filter past its two early returns: each constant of the code
\* is bound to its value in turn
Smooth(f, value, timestamp, dt) ==
    Only({Only({Only({Only({Only({Only({
        [filter |-> [x |-> newX, dx |-> newDx, lastTime |-> timestamp],
         value |-> newX] :
        newX \in {QAdd(QMul(ea, value), QMul(QSub(QUnit, ea), f.x))}}) :
        ea \in {Alpha(cutoff, dt)}}) :
        cutoff \in {QAdd(FilterMinCutoff, QMul(FilterBeta, QAbs(newDx)))}}) :
        newDx \in {QAdd(QMul(edx, dx), QMul(QSub(QUnit, edx), f.dx))}}) :
        edx \in {Alpha(FilterDCutoff, dt)}}) :
        dx \in {QDiv(QSub(value, f.x), dt)}})

\* OneEuroFilter.filter: the filter as the call leaves it, and the value the
\* call returns
OneEuroFilter_filter(f, value, timestamp) ==
    IF f.lastTime = 0
    THEN [filter |-> [f EXCEPT !.x = value, !.lastTime = timestamp],
          value |-> value]
    ELSE Only({IF ~QLess(QZero, dt) THEN [filter |-> f, value |-> f.x]
               ELSE Smooth(f, value, timestamp, dt) :
                   dt \in {Q(timestamp - f.lastTime, 1000)}})

\* new Point2DFilter(config), and Point2DFilter.filter
NewPoint2DFilter == [xFilter |-> NewOneEuroFilter, yFilter |-> NewOneEuroFilter]

Point2DFilter_filter(f, point, timestamp) ==
    Only({[filter |-> [xFilter |-> fx.filter, yFilter |-> fy.filter],
           value |-> [x |-> fx.value, y |-> fy.value]] :
              fx \in {OneEuroFilter_filter(f.xFilter, point.x, timestamp)},
              fy \in {OneEuroFilter_filter(f.yFilter, point.y, timestamp)}})

MaxKeypoints == 1     \* keypoints of a hand (21 in the HandTracker)
MaxDetections == 2    \* frames handed to detect
MaxHands == 2         \* numHands

\* new HandKeypointFilter(numKeypoints, config)
NewHandKeypointFilter == [idx \in 1..MaxKeypoints |-> NewPoint2DFilter]

\* HandKeypointFilter.filter: keypoint idx goes through this.filters[idx], and
\* z is copied
HandKeypointFilter_filter(filters, keypoints, timestamp) ==
    Only({[filters |-> [idx \in 1..MaxKeypoints |->
                           IF idx <= Len(keypoints) THEN each[idx].filter
                           ELSE filters[idx]],
           keypoints |-> [idx \in 1..Len(keypoints) |->
                             [x |-> each[idx].value.x, y |-> each[idx].value.y,
                              z |-> keypoints[idx].z]]] :
              each \in {[idx \in 1..Len(keypoints) |->
                            Point2DFilter_filter(filters[idx], keypoints[idx],
                                                 timestamp)]}})

\* HandTracker.detect, the map over result.landmarks: every hand goes through
\* this.keypointFilter in turn.  done holds the hands mapped so far.
RECURSIVE FilterHands(_, _, _, _)
FilterHands(filters, landmarks, timestamp, done) ==
    IF landmarks = <<>> THEN [keypointFilter |-> filters, hands |-> done]
    ELSE Only({FilterHands(filtered.filters, Tail(landmarks), timestamp,
                           Append(done, filtered.keypoints)) :
                   filtered \in {HandKeypointFilter_filter(filters, Head(landmarks),
                                                           timestamp)}})

\* HandTracker.detect(image, timestamp) with an initialized landmarker whose
\* detectForVideo returns landmarks
HandTracker_detect(filters, landmarks, timestamp) ==
    IF Len(landmarks) = 0 THEN [keypointFilter |-> filters, hands |-> <<>>]
    ELSE FilterHands(filters, landmarks, timestamp, <<>>)

\* Hands harness: two HandTrackers are handed the same number of frames at
\* the same times; the frames of the two differ in nothing but the keypoints
\* of the first hand.
Coordinates == {QZero, QUnit}

Keypoints == [x : Coordinates, y : Coordinates, z : {QZero}]

RawHands == [1..MaxKeypoints -> Keypoints]

NewExecution ==
    [keypointFilter |-> NewHandKeypointFilter, timestamp |-> 0, frames |-> 0,
     landmarks |-> <<>>, hands |-> <<>>]

DetectIn(execution, landmarks, timestamp) ==
    Only({[keypointFilter |-> detected.keypointFilter,
           timestamp |-> timestamp,
           frames |-> execution.frames + 1,
           landmarks |-> landmarks,
           hands |-> detected.hands] :
              detected \in {HandTracker_detect(execution.keypointFilter,
                                              landmarks, timestamp)}})

HandsInit ==
    /\ NothingScored
    /\ tracker = createStabilityTracker(0)
    /\ held = NoUpdates
    /\ FrameIdle(NoChord)
    /\ CalibrationIdle
    /\ FretboardIdle
    /\ MapperIdle
    /\ AssignerIdle
    /\ WizardIdle
    /\ detections = <<NewExecution, NewExecution>>

Landmarks(n, first, second) == SubSeq(<<first, second>>, 1, n)

Detect ==
    /\ detections[1].frames < MaxDetections
    /\ \E n \in 0..MaxHands, first1 \in RawHands, first2 \in RawHands,
          second \in RawHands, timestamp \in {detections[1].timestamp + 1000} :
          detections' =
              [e \in 1..2 |->
                  DetectIn(detections[e],
                           Landmarks(n, IF e = 1 THEN first1 ELSE first2, second),
                           timestamp)]
    /\ UNCHANGED <<srcPoints, dstPoints, homography, imageData, manualPoints,
                   lineResult, estimate, mapper, assigner, wizard, scoreVars,
                   stabVars, frameVars>>

HandsNext == Detect

SpecHands == HandsInit /\ [][HandsNext]_vars

-----------------------------------------------------------------------------
(* StringFretMapper: mapToStringsAndFrets                                   *)
(*                                                                          *)
(* Plane coordinates and confidences are exact fractions.                   *)

identityHomography ==
    <<<<QUnit, QZero, QZero>>, <<QZero, QUnit, QZero>>, <<QZero, QZero, QUnit>>>>

projectPoints(H, points) ==
    [i \in 1..Len(points) |-> multiplyMatrixPoint(H, points[i])]

Line(x1, y1, x2, y2) == [start |-> Point(x1, y1), end |-> Point(x2, y2)]

\* distanceToLine.  The string lines of the model run straight down the plane
\* and the points lie between their two ends, where the nearest point of the
\* line is (line.start.x, point.y) and the distance is |point.x - line.start.x|.
distanceToLine(point, line) == QAbs(QSub(point.x, line.start.x))

\* distanceToFret, of a fret line that is there
distanceToFret(point, fret) == QAbs(QSub(point.y, fret.start.y))

\* the loop of findNearestString from string i on: found is minDist < Infinity
RECURSIVE NearestFrom(_, _, _, _, _)
NearestFrom(point, strings, i, found, nearestIdx) ==
    IF i > Len(strings) THEN nearestIdx
    ELSE IF \/ ~found
            \/ QLess(distanceToLine(point, strings[i]),
                     distanceToLine(point, strings[nearestIdx]))
         THEN NearestFrom(point, strings, i + 1, TRUE, i)
         ELSE NearestFrom(point, strings, i + 1, found, nearestIdx)

\* findNearestString: 1-indexed
findNearestString(point, strings) ==
    IF Len(strings) = 0 THEN 1 ELSE NearestFrom(point, strings, 1, FALSE, 1)

\* findNearestFret: the 0-based index of the first fret line the point is
\* above, frets.length when there is none
findNearestFret(point, frets) ==
    IF Len(frets) = 0 THEN 0
    ELSE Only({IF below = {} THEN Len(frets)
               ELSE (CHOOSE i \in below : \A j \in below : i <= j) - 1 :
                   below \in {{i \in 1..Len(frets) :
                                  QLess(point.y, frets[i].start.y)}}})

FingerAssignment(fingerId, stringIdx, fretIdx, confidence, position) ==
    [fingerId |-> fingerId, stringIdx |-> stringIdx, fretIdx |-> fretIdx,
     confidence |-> confidence, position |-> position]

\* Math.max(0, 1 - (stringDist / 0.1 + fretDist / 0.1) / 2)
MappingConfidence(stringDist, fretDist) ==
    QMax(QZero, QSub(QUnit, QDiv(QAdd(QDiv(stringDist, Q(1, 10)),
                                      QDiv(fretDist, Q(1, 10))),
                                 QInt(2))))

\* the body of the loop of mapToStringsAndFrets for one fingertip
MapFingertip(fingertip, planePoint, strings, frets) ==
    Only({IF \/ stringIdx > Len(strings)
             \/ fretIdx < 0
             \/ fretIdx >= Len(frets)
          THEN FingerAssignment(fingertip.fingerId, 1, 0, QZero, fingertip.position)
          ELSE FingerAssignment(
                   fingertip.fingerId, stringIdx, fretIdx,
                   MappingConfidence(distanceToLine(planePoint, strings[stringIdx]),
                                     distanceToFret(planePoint, frets[fretIdx + 1])),
                   fingertip.position) :
              stringIdx \in {findNearestString(planePoint, strings)},
              fretIdx \in {findNearestFret(planePoint, frets)}})

\* [...assignments].sort((a, b) => a.stringIdx - b.stringIdx), as the places
\* the sorted entries have in assignments; the sort is stable
SortedByString(assignments) ==
    [k \in 1..Len(assignments) |->
        CHOOSE i \in 1..Len(assignments) :
            Cardinality({j \in 1..Len(assignments) :
                \/ assignments[j].stringIdx < assignments[i].stringIdx
                \/ /\ assignments[j].stringIdx = assignments[i].stringIdx
                   /\ j < i}) = k - 1]

\* confidence *= 0.8
Lowered(confidence) == QMul(confidence, Q(8, 10))

\* the loop of enforceStringOrder from place i of sorted on; sorted holds
\* the objects of assignments, so the loop changes assignments in place
RECURSIVE CheckOrderFrom(_, _, _)
CheckOrderFrom(assignments, sorted, i) ==
    IF i > Len(sorted) THEN assignments
    ELSE IF /\ assignments[sorted[i - 1]].fingerId > assignments[sorted[i]].fingerId
            /\ assignments[sorted[i - 1]].stringIdx < assignments[sorted[i]].stringIdx
         THEN Only({CheckOrderFrom(lowered, sorted, i + 1) :
                        lowered \in
                            {[assignments EXCEPT
                                 ![sorted[i - 1]].confidence = Lowered(@),
                                 ![sorted[i]].confidence = Lowered(@)]}})
         ELSE CheckOrderFrom(assignments, sorted, i + 1)

enforceStringOrder(assignments) ==
    CheckOrderFrom(assignments, SortedByString(assignments), 2)

\* the assignments of mapToStringsAndFrets before its consistency pass
MapFingertips(fingertips, H, strings, frets) ==
    Only({[i \in 1..Len(fingertips) |->
              MapFingertip(fingertips[i], planePoints[i], strings, frets)] :
              planePoints \in
                  {projectPoints(H, [i \in 1..Len(fingertips) |->
                                        fingertips[i].position])}})

\* mapToStringsAndFrets.  Its first statement reads homographyMatrix, a name
\* the function does not declare (its parameter is homography): the call
\* throws a ReferenceError unless the name is bound outside the function,
\* to the matrix `bound`.
mapToStringsAndFrets(fingertips, bound, strings, frets) ==
    IF ~bound.declared THEN Thrown
    ELSE Only({Returned([assignments |-> assignments,
                         confidence |->
                             IF Len(assignments) = 0 THEN NaN
                             ELSE Num(QDiv(QSum([i \in 1..Len(assignments) |->
                                                    assignments[i].confidence]),
                                           QInt(Len(assignments))))]) :
                   assignments \in
                       {enforceStringOrder(
                            MapFingertips(fingertips, bound.matrix, strings, frets))}})

-----------------------------------------------------------------------------
(* Mapper harness: mapToStringsAndFrets is called once on the fingertips of *)
(* a hand, in the order getFingertips gives them.                           *)

MaxTips == 3       \* fingertips handed to the mapper
NumFretLines == 3  \* fret lines of the fretboard
NumStringLines == 3

\* string line k runs down the plane at x = k/10, fret line k crosses it at
\* y = k/10
MapperStrings ==
    [k \in 1..NumStringLines |-> Line(Q(k, 10), QZero, Q(k, 10), QUnit)]

MapperFrets ==
    [k \in 1..NumFretLines |-> Line(QZero, Q(k, 10), QUnit, Q(k, 10))]

\* on a string or a hundredth off it; above the first fret line, just above
\* the second, and beyond the last
TipXs == {Q(k, 10) : k \in 1..NumStringLines} \cup {Q(11, 100)}
TipYs == {Q(5, 100), Q(19, 100), Q(10 * NumFretLines + 5, 100)}

TipPositions == {Point(x, y) : x \in TipXs, y \in TipYs}

\* getFingertips: fingerId is the place in the list, from 0
Fingertips ==
    UNION {{[i \in 1..n |-> [fingerId |-> i - 1, position |-> positions[i]]] :
                positions \in [1..n -> TipPositions]} : n \in 1..MaxTips}

Bindings ==
    {[declared |-> FALSE, matrix |-> <<>>],
     [declared |-> TRUE, matrix |-> identityHomography]}

MapperReady(fingertips, bound) ==
    [status |-> "ready", value |-> <<>>, fingertips |-> fingertips,
     bound |-> bound]

MapperInit ==
    /\ NothingScored
    /\ tracker = createStabilityTracker(0)
    /\ held = NoUpdates
    /\ FrameIdle(NoChord)
    /\ CalibrationIdle
    /\ FretboardIdle
    /\ HandsIdle
    /\ AssignerIdle
    /\ WizardIdle
    /\ \E fingertips \in Fingertips, bound \in Bindings :
          mapper = MapperReady(fingertips, bound)

MapToStringsAndFrets ==
    /\ mapper.status = "ready"
    /\ \E done \in {mapToStringsAndFrets(mapper.fingertips, mapper.bound,
                                          MapperStrings, MapperFrets)} :
          mapper' = [mapper EXCEPT !.status = done.status, !.value = done.value]
    /\ UNCHANGED <<srcPoints, dstPoints, homography, imageData, manualPoints,
                   lineResult, estimate, detections, assigner, wizard,
                   scoreVars, stabVars, frameVars>>

MapperNext == MapToStringsAndFrets

SpecMapper == MapperInit /\ [][MapperNext]_vars

-----------------------------------------------------------------------------
(* ChordMatcher: generateFeedback *)

\* String.prototype.includes
Includes(str, sub) ==
    \E i \in 1..(Len(str) - Len(sub) + 1) : SubSeq(str, i, i + Len(sub) - 1) = sub

fingerNames == <<"Thumb", "Index", "Middle", "Ring", "Pinky">>

\* the message for the score, which is held in 1/600ths: 0.9, 0.7 and 0.5 are
\* 540, 420 and 300
OverallFeedback(score) ==
    IF 10 * score >= 9 * ScoreOne THEN "Excellent!"
    ELSE IF 10 * score >= 7 * ScoreOne THEN "Good, keep adjusting"
    ELSE IF 10 * score >= 5 * ScoreOne THEN "Getting there..."
    ELSE "Keep practicing"

\* the messages the loop pushes for string s
StringFeedback(stringResult, s) ==
    IF stringResult.ok THEN <<>>
    ELSE IF Includes(stringResult.reason, "wrong fret")
    THEN IF /\ stringResult.fingerId # NoFinger
            /\ stringResult.fingerId >= 0
            /\ stringResult.fingerId < Len(fingerNames)
         THEN <<fingerNames[stringResult.fingerId + 1]
                    \o " finger: check fret position">>
         ELSE <<>>
    ELSE IF Includes(stringResult.reason, "missing")
    THEN <<"String " \o ToString(s) \o ": place finger">>
    ELSE IF Includes(stringResult.reason, "blocking")
    THEN <<"String " \o ToString(s) \o ": remove finger">>
    ELSE <<>>

\* ((2000 - stabilityMs) / 1000).toFixed(1)
RemainingSeconds(stabilityMs) ==
    ToString(((RequiredStableMs - stabilityMs + 50) \div 100) \div 10) \o "."
        \o ToString(((RequiredStableMs - stabilityMs + 50) \div 100) % 10)

StabilityFeedback(stabilityMs) ==
    IF stabilityMs > 0 /\ stabilityMs < RequiredStableMs
    THEN <<"Hold for " \o RemainingSeconds(stabilityMs) \o " more seconds">>
    ELSE IF stabilityMs >= RequiredStableMs
    THEN <<"Perfect! Chord formed correctly.">>
    ELSE <<>>

\* generateFeedback(matchResult, chordName) for a matchResult that is not null
generateFeedback(matchResult) ==
    <<OverallFeedback(matchResult.score)>>
        \o StringFeedback(matchResult.perString[1], 1)
        \o StringFeedback(matchResult.perString[2], 2)
        \o StringFeedback(matchResult.perString[3], 3)
        \o StringFeedback(matchResult.perString[4], 4)
        \o StringFeedback(matchResult.perString[5], 5)
        \o StringFeedback(matchResult.perString[6], 6)
        \o StabilityFeedback(matchResult.stabilityMs)

-----------------------------------------------------------------------------
(* HandAssigner: assignHands                                                *)
(*                                                                          *)
(* Keypoints and the region of interest have whole coordinates.  A hand is  *)
(* named by its place in the hands list, 0 for null.                        *)

NoROI == [present |-> FALSE, x |-> 0, y |-> 0, width |-> 0, height |-> 0]

ROI(x, y, width, height) ==
    [present |-> TRUE, x |-> x, y |-> y, width |-> width, height |-> height]

\* keypointsInROI
keypointsInROI(hand, roi) ==
    IF ~roi.present THEN 0
    ELSE Cardinality({k \in 1..Len(hand.keypoints) :
             /\ hand.keypoints[k].x >= roi.x
             /\ hand.keypoints[k].x <= roi.x + roi.width
             /\ hand.keypoints[k].y >= roi.y
             /\ hand.keypoints[k].y <= roi.y + roi.height})

\* distanceToROI from the last keypoint of the hand in place of keypoint 0
distanceToROI_FromLastKeypoint(hand, roi) ==
    IF ~roi.present \/ Len(hand.keypoints) = 0
    THEN [infinite |-> TRUE, squared |-> 0]
    ELSE [infinite |-> FALSE,
          squared |->
              (2 * hand.keypoints[Len(hand.keypoints)].x - (2 * roi.x + roi.width))
                  * (2 * hand.keypoints[Len(hand.keypoints)].x - (2 * roi.x + roi.width))
              + (2 * hand.keypoints[Len(hand.keypoints)].y - (2 * roi.y + roi.height))
                  * (2 * hand.keypoints[Len(hand.keypoints)].y - (2 * roi.y + roi.height))]

\* distanceToROI: Infinity, or the distance of keypoint 0 to the centre of
\* the region, held as four times its square (Math.sqrt keeps the order of
\* the squares)
distanceToROI(hand, roi) ==
    IF ~roi.present \/ Len(hand.keypoints) = 0
    THEN [infinite |-> TRUE, squared |-> 0]
    ELSE [infinite |-> FALSE,
          squared |->
              (2 * hand.keypoints[1].x - (2 * roi.x + roi.width))
                  * (2 * hand.keypoints[1].x - (2 * roi.x + roi.width))
              + (2 * hand.keypoints[1].y - (2 * roi.y + roi.height))
                  * (2 * hand.keypoints[1].y - (2 * roi.y + roi.height))]

\* d1 < d2 on distances
Nearer(d1, d2) ==
    /\ ~d1.infinite
    /\ d2.infinite \/ d1.squared < d2.squared

HandAssignment(fretting, strumming) ==
    [fretting |-> fretting, strumming |-> strumming]

\* a single hand is the fretting hand with more than this many keypoints in
\* the region
SingleHandFloor == 10

\* assignHands(hands, fretboard, handedness) with fretboard.roi = roi
assignHands(hands, roi) ==
    IF Len(hands) = 0 THEN HandAssignment(0, 0)
    ELSE IF Len(hands) = 1
    THEN IF keypointsInROI(hands[1], roi) > SingleHandFloor
         THEN HandAssignment(1, 0)
         ELSE HandAssignment(0, 1)
    ELSE IF keypointsInROI(hands[1], roi) > keypointsInROI(hands[2], roi)
    THEN HandAssignment(1, 2)
    ELSE IF keypointsInROI(hands[2], roi) > keypointsInROI(hands[1], roi)
    THEN HandAssignment(2, 1)
    ELSE IF Nearer(distanceToROI(hands[1], roi), distanceToROI(hands[2], roi))
    THEN HandAssignment(1, 2)
    ELSE HandAssignment(2, 1)

-----------------------------------------------------------------------------
(* Assigner harness: assignHands is called once on the hands of a frame.    *)

MaxHandKeypoints == 2   \* keypoints of a hand

\* the region of interest of the harness, and the places a keypoint may be:
\* left of the region, on its left edge, on its centre, right of it
HarnessROI == ROI(1, 1, 2, 2)

KeypointPlaces ==
    {[x |-> 0, y |-> 2], [x |-> 1, y |-> 2], [x |-> 2, y |-> 2], [x |-> 4, y |-> 2]}

HarnessHands ==
    {[keypoints |-> kps] :
        kps \in UNION {[1..n -> KeypointPlaces] : n \in 0..MaxHandKeypoints}}

HandLists ==
    UNION {[1..n -> HarnessHands] : n \in 0..MaxHands}

AssignerReady(hands, roi) ==
    [status |-> "ready", value |-> <<>>, hands |-> hands, roi |-> roi]

AssignerInit ==
    /\ NothingScored
    /\ tracker = createStabilityTracker(0)
    /\ held = NoUpdates
    /\ FrameIdle(NoChord)
    /\ CalibrationIdle
    /\ FretboardIdle
    /\ HandsIdle
    /\ MapperIdle
    /\ WizardIdle
    /\ \E hands \in HandLists, roi \in {NoROI, HarnessROI} :
          assigner = AssignerReady(hands, roi)

AssignHands ==
    /\ assigner.status = "ready"
    /\ assigner' = [assigner EXCEPT
                       !.status = "returned",
                       !.value = assignHands(assigner.hands, assigner.roi)]
    /\ UNCHANGED <<srcPoints, dstPoints, homography, imageData, manualPoints,
                   lineResult, estimate, detections, mapper, wizard,
                   scoreVars, stabVars, frameVars>>

AssignerNext == AssignHands

SpecAssigner == AssignerInit /\ [][AssignerNext]_vars

-----------------------------------------------------------------------------
(* ManualCalibration: the four-point wizard and the calibration store       *)

\* a point of the wizard's `points` state: undefined until it is tapped
Untapped == [defined |-> FALSE, x |-> QZero, y |-> QZero]

Tapped(x, y) == [defined |-> TRUE, x |-> x, y |-> y]

NoTaps ==
    [nutLeft |-> Untapped, nutRight |-> Untapped,
     fretLeft |-> Untapped, fretRight |-> Untapped]

\* useCalibrationStore before any calibration
DefaultStore ==
    [fretboard |-> [homography |-> <<>>, strings |-> <<>>, frets |-> <<>>,
                    confidence |-> QZero],
     isCalibrated |-> FALSE,
     profiles |-> <<>>]

\* the component as it is first rendered; `taps` lists the clicks handled
WizardMounted ==
    [status |-> "mounted", value |-> <<>>, step |-> "nut-left",
     points |-> NoTaps, store |-> DefaultStore, taps |-> <<>>,
     onComplete |-> FALSE]

\* the client position of a click in video coordinates
VideoPoint(client, rect, videoWidth, videoHeight) ==
    Tapped(QMul(QDiv(QSub(QInt(client.x), QInt(rect.left)), QInt(rect.width)),
                QInt(videoWidth)),
           QMul(QDiv(QSub(QInt(client.y), QInt(rect.top)), QInt(rect.height)),
                QInt(videoHeight)))

WizardStrings == 6
WizardFrets == 5
ManualConfidence == Q(9, 10)

\* the fretboard completeCalibration builds from four defined points
ManualFretboard(points) ==
    [homography |->
         computeHomography(
             <<Point(points.nutLeft.x, points.nutLeft.y),
               Point(points.nutRight.x, points.nutRight.y),
               Point(points.fretLeft.x, points.fretLeft.y),
               Point(points.fretRight.x, points.fretRight.y)>>,
             UnitSquare).value,
     strings |->
         [i \in 1..WizardStrings |->
             Only({Line(x, points.nutLeft.y, x, points.fretLeft.y) :
                 x \in {QDiv(QAdd(points.nutLeft.x,
                                  QMul(QSub(points.nutRight.x, points.nutLeft.x),
                                       Q(2 * i - 1, 2))),
                             QInt(WizardStrings))}})],
     frets |->
         [i \in 1..(WizardFrets + 1) |->
             IF i = 1
             THEN Line(points.nutLeft.x, points.nutLeft.y,
                       points.nutRight.x, points.nutRight.y)
             ELSE Only({Line(points.nutLeft.x, y, points.nutRight.x, y) :
                     y \in {QAdd(points.nutLeft.y,
                                 QMul(QSub(points.fretLeft.y, points.nutLeft.y),
                                      QInt(i - 1)))}})],
     confidence |-> ManualConfidence]

\* setFretboard(fretboard), then saveCalibration(profile)
StoreCalibration(store, fretboard) ==
    [store EXCEPT !.fretboard = fretboard,
                  !.isCalibrated = TRUE,
                  !.profiles = Append(@, [homography |-> fretboard.homography,
                                          strings |-> fretboard.strings,
                                          frets |-> fretboard.frets])]

\* completeCalibration(), called by a handler that has w as its pending state
\* and `points` as the points of the render the handler belongs to.  Tapped
\* positions are finite: the canvas rectangle has a size.
completeCalibration(w, points) ==
    IF \/ ~points.nutLeft.defined
       \/ ~points.nutRight.defined
       \/ ~points.fretLeft.defined
       \/ ~points.fretRight.defined
    THEN w
    ELSE [w EXCEPT !.store = StoreCalibration(@, ManualFretboard(points)),
                   !.step = "complete",
                   !.onComplete = TRUE]

\* handleCanvasClick(e) of the render whose state is w
handleCanvasClick(w, client, rect, videoWidth, videoHeight) ==
    IF ~rect.present THEN w
    ELSE Only({
        CASE w.step = "nut-left" ->
               [w EXCEPT !.points.nutLeft = point, !.step = "nut-right",
                         !.taps = Append(@, point)]
          [] w.step = "nut-right" ->
               [w EXCEPT !.points.nutRight = point, !.step = "fret-left",
                         !.taps = Append(@, point)]
          [] w.step = "fret-left" ->
               [w EXCEPT !.points.fretLeft = point, !.step = "fret-right",
                         !.taps = Append(@, point)]
          [] w.step = "fret-right" ->
               completeCalibration(
                   [w EXCEPT !.points.fretRight = point,
                             !.taps = Append(@, point)],
                   w.points)
          [] OTHER -> [w EXCEPT !.taps = Append(@, point)] :
        point \in {VideoPoint(client, rect, videoWidth, videoHeight)}})

-----------------------------------------------------------------------------
(* Wizard harness: the operator taps the canvas.                            *)

MaxTaps == 5   \* clicks on the canvas

\* a 2 by 2 canvas at (1, 1) showing a 4 by 4 video
CanvasRect == [present |-> TRUE, left |-> 1, top |-> 1, width |-> 2, height |-> 2]
VideoSize == 4

ClientPositions ==
    {[x |-> 1, y |-> 1], [x |-> 3, y |-> 1], [x |-> 1, y |-> 2], [x |-> 3, y |-> 3]}

WizardInit ==
    /\ NothingScored
    /\ tracker = createStabilityTracker(0)
    /\ held = NoUpdates
    /\ FrameIdle(NoChord)
    /\ CalibrationIdle
    /\ FretboardIdle
    /\ HandsIdle
    /\ MapperIdle
    /\ AssignerIdle
    /\ wizard = WizardMounted

Tap ==
    /\ wizard.status = "mounted"
    /\ Len(wizard.taps) < MaxTaps
    /\ \E client \in ClientPositions :
          wizard' = handleCanvasClick(wizard, client, CanvasRect,
                                      VideoSize, VideoSize)
    /\ UNCHANGED <<srcPoints, dstPoints, homography, imageData, manualPoints,
                   lineResult, estimate, detections, mapper, assigner,
                   scoreVars, stabVars, frameVars>>

WizardNext == Tap

SpecWizard == WizardInit /\ [][WizardNext]_vars

-----------------------------------------------------------------------------
(* Claims about scoreChord, checked under SpecScore *)

Tmpl == getChordTemplate(template)

\* the scores 0.8 and 0.6
Score08 == (4 * ScoreOne) \div 5

Score06 == (3 * ScoreOne) \div 5

FingersOn(s) == Candidates(fingers, s)

\* exactly one finger, at the required fret, on every fretted string and no
\* finger on any other string
ExactlyMatching ==
    /\ \A s \in FrettedStrings(Tmpl) :
          /\ Cardinality(FingersOn(s)) = 1
          /\ \A i \in FingersOn(s) : fingers[i].fretIdx = Tmpl[s].fret
    /\ \A s \in Strings \ FrettedStrings(Tmpl) : FingersOn(s) = {}

ExactResult ==
    /\ result.score >= Score08
    /\ \A s \in FrettedStrings(Tmpl) \cup OpenStrings(Tmpl) : result.perString[s].ok

\* C1 as stated: for every chord template, an exactly matching finger list
\* scores at least 0.8 with every fretted and open string ok.
C1_ExactMatchAnyTemplate == ExactlyMatching => ExactResult

\* C1 amended: for every chord template with at most two muted strings (each
\* catalog template is one), an exactly matching finger list scores at least
\* 0.8 and every fretted and every open string is ok.
C1_ExactMatchFewMuted ==
    (ExactlyMatching /\ Cardinality(MutedStrings(Tmpl)) <= 2) => ExactResult

C1_Witness ==
    /\ ExactlyMatching
    /\ template = "D"
    /\ Len(fingers) = 3
    /\ result.score >= Score08

\* C2 as stated: when a fretted string s is satisfied, moving the finger that
\* satisfies it to any other fret (nothing else changed) gives a strictly
\* lower score and perString[s].ok = false.
C2_WrongFretLowersScore ==
    \A s \in FrettedStrings(Tmpl) :
        (HasFinger(fingers, s) /\ result.perString[s].ok) =>
            \A f \in Frets \ {bestFingerOnString(fingers, s).fretIdx} :
                LET moved == scoreChord(SlideTo(fingers, BestIndex(fingers, s), f), Tmpl)
                IN  /\ moved.score < result.score
                    /\ ~moved.perString[s].ok

\* C2 amended: the move gives perString[s].ok = false, and a strictly lower
\* score whenever the score before the move was above 0.
C2_WrongFretLowersPositiveScore ==
    \A s \in FrettedStrings(Tmpl) :
        (HasFinger(fingers, s) /\ result.perString[s].ok) =>
            \A f \in Frets \ {bestFingerOnString(fingers, s).fretIdx} :
                LET moved == scoreChord(SlideTo(fingers, BestIndex(fingers, s), f), Tmpl)
                IN  /\ result.score > 0 => moved.score < result.score
                    /\ ~moved.perString[s].ok

C2_Witness ==
    \E s \in FrettedStrings(Tmpl) :
        /\ HasFinger(fingers, s)
        /\ result.perString[s].ok
        /\ Len(fingers) >= 2
        /\ scoreChord(SlideTo(fingers, BestIndex(fingers, s), 0), Tmpl).score
             < result.score

ThreeFrettedThreeOpen ==
    /\ Cardinality(FrettedStrings(Tmpl)) = 3
    /\ Cardinality(OpenStrings(Tmpl)) = 3

\* C3: on a chord of three fretted and three open strings, with a single
\* finger, at the required fret of one fretted string, the score is below
\* 0.6 and both finger-less fretted strings are not ok.
C3_MissingFingersBelow06 ==
    ( /\ ThreeFrettedThreeOpen
      /\ Len(fingers) = 1
      /\ fingers[1].stringIdx \in FrettedStrings(Tmpl)
      /\ fingers[1].fretIdx = Tmpl[fingers[1].stringIdx].fret )
    => /\ result.score < Score06
       /\ \A s \in FrettedStrings(Tmpl) \ {fingers[1].stringIdx} :
             ~result.perString[s].ok

\* C4: on a chord of three fretted and three open strings, with one finger
\* on each fretted string and none elsewhere, two at the required fret and
\* the third one fret away from it, the score is below 0.8.
C4_OneFretOffBelow08 ==
    ( /\ ThreeFrettedThreeOpen
      /\ Len(fingers) = 3
      /\ \A s \in FrettedStrings(Tmpl) : Cardinality(FingersOn(s)) = 1
      /\ \E s \in FrettedStrings(Tmpl) :
            /\ \A i \in FingersOn(s) : Abs(fingers[i].fretIdx - Tmpl[s].fret) = 1
            /\ \A t \in FrettedStrings(Tmpl) \ {s} :
                  \A i \in FingersOn(t) : fingers[i].fretIdx = Tmpl[t].fret )
    => result.score < Score08

\* C5: a string with an open constraint is ok whenever no finger is on it or
\* the fingers on it are at fret 0.
C5_OpenStringOk ==
    \A s \in OpenStrings(Tmpl) :
        (\A i \in FingersOn(s) : fingers[i].fretIdx = 0) => result.perString[s].ok

C5_Witness ==
    \E s \in OpenStrings(Tmpl), t \in OpenStrings(Tmpl) :
        /\ FingersOn(s) # {}
        /\ \A i \in FingersOn(s) : fingers[i].fretIdx = 0
        /\ FingersOn(t) = {}
        /\ result.perString[s].ok
        /\ result.perString[t].ok

-----------------------------------------------------------------------------
(* Claims about the stability tracker, checked under SpecStab *)

\* C6: right after an update with a score below the threshold stableMs is 0;
\* and when the updates from one at time t0 up to the last one at time t all
\* had a score at or above the threshold and t - t0 >= requiredStableMs, the
\* chord is stable.
C6_StabilityTracker ==
    /\ held.below => tracker.stableMs = 0
    /\ (held.since >= 0 /\ held.lastTs - held.since >= RequiredStableMs)
          => isChordStable(tracker)

C6_Witness ==
    /\ held.since > 0
    /\ held.lastTs - held.since = RequiredStableMs
    /\ tracker.score = Threshold
    /\ tracker.stableMs = RequiredStableMs
    /\ isChordStable(tracker)

-----------------------------------------------------------------------------
(* Claims about the target chord, checked under SpecChord *)

-----------------------------------------------------------------------------
(* Claims about the frame loop, checked under Spec and SpecLive *)

\* C8: at any time at most one processFrame execution is in progress and at
\* most one next-frame callback is pending.
C8_SingleFrameLoop == InFlight(frames) <= 1 /\ Pending(sched) <= 1

\* C9: while the processor is stopped no pipeline step runs and the observer
\* callback is not invoked.
C9_QuietAfterStop == ~isRunning => ~last.ranStep /\ ~last.emitted

\* C10: a processFrame execution that ends while the processor is running has
\* scheduled exactly one next frame, whatever path it took; and when the
\* processor stays running from some point on, executions keep ending.
C10_AlwaysSchedulesNext ==
    /\ [](last.ended /\ isRunning => last.scheduled = 1)
    /\ (<>[]isRunning => []<><<last'.ended>>_vars)

\* a step threw on an element whose requestVideoFrameCallback is in use, and
\* the execution still scheduled its one next frame
C10_Witness ==
    /\ isRunning
    /\ video = "rvfc"
    /\ last.ended
    /\ last.ranStep
    /\ ~last.emitted
    /\ last.scheduled = 1
    /\ Pending(sched) = 1

-----------------------------------------------------------------------------
(* Claims about computeHomography, checked under SpecHomography *)

Called == homography.status # "none"
HasMatrix == homography.status = "returned"

\* no three of the four points on one line
NoThreeCollinear(ps) ==
    \A i, j, k \in 1..4 :
        i < j /\ j < k =>
            QMul(QSub(ps[j].x, ps[i].x), QSub(ps[k].y, ps[i].y))
                # QMul(QSub(ps[j].y, ps[i].y), QSub(ps[k].x, ps[i].x))

NonDegenerate ==
    /\ Len(srcPoints) = 4 /\ Len(dstPoints) = 4
    /\ NoThreeCollinear(srcPoints)
    /\ NoThreeCollinear(dstPoints)

Within(a, b, tol) == QLess(QAbs(QSub(a, b)), tol)

\* C11: the matrix computed for a non-degenerate correspondence of four point
\* pairs maps every source point to its target point, and the matrix from the
\* square [0,100]^2 to the square [0,200]^2 maps (50,50) to within 10 of
\* (100,100).
C11_RealisesCorrespondence ==
    HasMatrix /\ NonDegenerate =>
        /\ \A i \in 1..4 :
               multiplyMatrixPoint(homography.value, srcPoints[i]) = dstPoints[i]
        /\ srcPoints = Square(0, 100) /\ dstPoints = Square(0, 200) =>
               LET r == multiplyMatrixPoint(homography.value, PointInt(50, 50))
               IN  /\ Within(r.x, QInt(100), QInt(10))
                   /\ Within(r.y, QInt(100), QInt(10))

\* C12: the matrix computed from the unit-square corners to themselves maps
\* each corner to itself and (0.5, 0.5) to within 0.1 of itself.
C12_IdentityOnUnitSquare ==
    HasMatrix /\ srcPoints = UnitSquare /\ dstPoints = UnitSquare =>
        /\ \A i \in 1..4 :
               multiplyMatrixPoint(homography.value, UnitSquare[i]) = UnitSquare[i]
        /\ LET r == multiplyMatrixPoint(homography.value, Point(Q(1, 2), Q(1, 2)))
           IN  /\ Within(r.x, Q(1, 2), Q(1, 10))
               /\ Within(r.y, Q(1, 2), Q(1, 10))

C12_Witness ==
    HasMatrix /\ srcPoints = UnitSquare /\ dstPoints = UnitSquare

\* a 3x3 matrix of finite numbers
IsMatrix3x3(m) ==
    /\ Len(m) = 3
    /\ \A r \in 1..3 : /\ Len(m[r]) = 3
                       /\ \A c \in 1..3 : m[r][c][2] > 0

\* C13: computeHomography throws exactly when one of the two lists does not
\* hold four points, and for two lists of four points, coincident and
\* collinear ones included, it returns a 3x3 matrix.
C13_ThrowsOnlyOnWrongLength ==
    Called =>
        /\ homography.status = "thrown"
               <=> (Len(srcPoints) # 4 \/ Len(dstPoints) # 4)
        /\ Len(srcPoints) = 4 /\ Len(dstPoints) = 4 =>
               HasMatrix /\ IsMatrix3x3(homography.value)

C13_Witness ==
    /\ HasMatrix
    /\ srcPoints \in Degenerate
    /\ IsMatrix3x3(homography.value)

-----------------------------------------------------------------------------
(* Claims about detectLines and estimateFretboard, checked under            *)
(* SpecFretboard                                                            *)

LinesDetected == lineResult.status = "returned"
\* the lines detectHorizontalLines found, and those detectVerticalLines found
AlongRow(line) == line.start.y = line.end.y
AlongColumn(line) == line.start.x = line.end.x
HorizontalDetected == SelectSeq(lineResult.value.lines, AlongRow)
VerticalDetected == SelectSeq(lineResult.value.lines, AlongColumn)

\* the same distance between every two neighbouring rows
EvenlySpaced(lines) ==
    LET ys == SortedRows(lines)
    IN  \A i, j \in 1..(Len(ys) - 1) : ys[i + 1] - ys[i] = ys[j + 1] - ys[j]

\* C14: detectLines reports confidence 0 when it finds fewer than four lines,
\* and a confidence above 0.6 when it finds two or more horizontal lines that
\* are evenly spaced in y and three or more vertical lines.
C14_ConfidenceOfRegularLines ==
    LinesDetected =>
        /\ Len(lineResult.value.lines) < 4
               => lineResult.value.confidence = Num(QZero)
        /\ (/\ Len(HorizontalDetected) >= 2
            /\ EvenlySpaced(HorizontalDetected)
            /\ Len(VerticalDetected) >= 3)
               => GreaterThan(lineResult.value.confidence, Q(6, 10))

Estimated == estimate.status # "none"

\* C16: estimateFretboard returns a result for every image and every manual
\* points, and the result has needsManualCalibration set exactly when its
\* confidence is below 0.7.
C16_FlagMatchesConfidence ==
    Estimated =>
        /\ estimate.status = "returned"
        /\ estimate.value.needsManualCalibration
               <=> LessThan(estimate.value.confidence, Q(7, 10))

\* a detection with a confidence between 0.6 and 0.7
C16_Witness ==
    /\ estimate.status = "returned"
    /\ ~manualPoints.given
    /\ estimate.value.hasHomography
    /\ estimate.value.needsManualCalibration
    /\ ~LessThan(estimate.value.confidence, Q(6, 10))
    /\ LessThan(estimate.value.confidence, Q(7, 10))

-----------------------------------------------------------------------------
(* Claims about matchChord, checked under SpecMatch *)

\* C15: the score of every result of scoreChord and of matchChord lies in
\* [0, 1], and the stabilityMs of every result of matchChord is not negative.
C15_ScoreAndStabilityInRange ==
    /\ result.score >= 0
    /\ result.score <= ScoreOne
    /\ result.stabilityMs >= 0
    /\ tracker.stableMs >= 0

\* a crowded fingering whose penalty exceeds its credit, matched after a
\* fingering that had built up stable time
C15_Witness ==
    /\ Len(fingers) > NumStrings
    /\ result.score = 0
    /\ now > 0

-----------------------------------------------------------------------------
(* Claims about the fretboard estimate of the frame loop, checked under      *)
(* SpecChord                                                                 *)

\* C17: from one emitted snapshot to the next the fretboard confidence never
\* decreases: the geometry of the previous frame is kept unless the new
\* estimate is at least as confident.
C17_FretboardConfidenceNeverDrops ==
    [][last'.emitted => snapshot'.fretboard >= snapshot.fretboard]_vars

-----------------------------------------------------------------------------
(* Claims about HandTracker.detect, checked under SpecHands *)

TwoHands ==
    /\ Len(detections[1].hands) = 2
    /\ Len(detections[2].hands) = 2

\* C18: the filtered keypoints of the second of two hands are the same in two
\* executions that differ only in the keypoints of the first hand, and they
\* are not the filtered keypoints of the first hand when the two hands are
\* apart.
C18_SecondHandIndependent ==
    TwoHands =>
        /\ detections[1].hands[2] = detections[2].hands[2]
        /\ \A e \in 1..2 :
               detections[e].landmarks[1] # detections[e].landmarks[2]
                   => detections[e].hands[1] # detections[e].hands[2]

-----------------------------------------------------------------------------
(* Claims about the time the stability tracker counts, checked under SpecStab *)

\* the update of this step is the first of a run of at-or-above-threshold
\* updates, and the tracker counted nothing before it: it was just created or
\* reset, or its last update was below the threshold
StartsRun ==
    /\ held.since < 0
    /\ held'.since >= 0
    /\ tracker.stableMs = 0

\* C19: stableMs counts only continuous time at or above the threshold: the
\* first at-or-above-threshold update after the tracker was created or reset,
\* or after a below-threshold update, adds none of the time elapsed before it
\* to stableMs, and so never by itself makes isChordStable true.
C19_FirstUpdateCountsNothing ==
    [][StartsRun => (tracker'.stableMs = 0 /\ ~isChordStable(tracker'))]_vars

-----------------------------------------------------------------------------
(* Claims about fretted strings, checked under SpecScore *)

\* the fingers of the scored list that are assigned to string s
AssignedTo(s) == {i \in 1..Len(fingers) : fingers[i].stringIdx = s}

\* the highest-confidence finger assigned to s, the first in list order on
\* equal confidence
TopFinger(s) ==
    CHOOSE i \in AssignedTo(s) :
        /\ \A j \in AssignedTo(s) : fingers[j].confidence <= fingers[i].confidence
        /\ \A j \in AssignedTo(s) :
               fingers[j].confidence = fingers[i].confidence => i <= j

OnFret(s, k) ==
    /\ AssignedTo(s) # {}
    /\ 2 * Abs(fingers[TopFinger(s)].fretIdx - k) <= 1

\* C20: a string with a fretted(k) constraint is ok exactly when the
\* highest-confidence finger assigned to it (the first in list order on equal
\* confidence) is within half a fret of k; otherwise its reason is
\* 'missing finger' when no finger is assigned to it and
\* 'wrong fret (expected k, got f)' when one is.
C20_FrettedStringOk ==
    \A s \in FrettedStrings(getChordTemplate(template)) :
        LET k == getChordTemplate(template)[s].fret
        IN  /\ result.perString[s].ok <=> OnFret(s, k)
            /\ ~OnFret(s, k) =>
                   result.perString[s].reason =
                       IF AssignedTo(s) = {} THEN "missing finger"
                       ELSE "wrong fret (expected " \o ToString(k) \o ", got "
                            \o ToString(fingers[TopFinger(s)].fretIdx) \o ")"

\* two fingers of equal confidence on a fretted string, the first off the
\* required fret and the second on it: the string is not ok
C20_Witness ==
    \E s \in FrettedStrings(getChordTemplate(template)) :
        /\ Len(fingers) = 2
        /\ AssignedTo(s) = {1, 2}
        /\ fingers[1].confidence = fingers[2].confidence
        /\ fingers[1].fretIdx # getChordTemplate(template)[s].fret
        /\ fingers[2].fretIdx = getChordTemplate(template)[s].fret
        /\ ~result.perString[s].ok

-----------------------------------------------------------------------------
(* Claims about open strings and the extra-finger penalty, checked under    *)
(* SpecScore                                                                *)

\* a finger of the scored list presses string s at fret 1 or higher
Blocked(s) ==
    \E i \in 1..Len(fingers) :
        fingers[i].stringIdx = s /\ fingers[i].fretIdx >= 1

\* C21: a string with an open constraint is not ok exactly when some finger
\* of the input is on it at fret 1 or higher, also when a finger of higher
\* confidence is on it at fret 0.
C21_OpenStringBlocked ==
    \A s \in OpenStrings(getChordTemplate(template)) :
        ~result.perString[s].ok <=> Blocked(s)

\* the fingers the penalty counts: those on muted strings and those on
\* fretted strings off the required fret
CountedFingers ==
    {i \in 1..Len(fingers) :
        /\ fingers[i].stringIdx \in Strings
        /\ \/ getChordTemplate(template)[fingers[i].stringIdx].type = "muted"
           \/ /\ getChordTemplate(template)[fingers[i].stringIdx].type = "fretted"
              /\ fingers[i].fretIdx #
                     getChordTemplate(template)[fingers[i].stringIdx].fret}

\* C22: the extra-finger penalty is min(0.2, 0.05 for every finger on a muted
\* string or on a fretted string off the required fret); the other fingers
\* add nothing.  In 1/600ths: 0.05 is 30, 0.2 is 120.
C22_PenaltyPerCountedFinger ==
    computeExtraFingerPenalty(fingers, getChordTemplate(template))
        = Min(2 * PenaltyPerHalf * Cardinality(CountedFingers), PenaltyCap)

-----------------------------------------------------------------------------
(* Claims about mapToStringsAndFrets, checked under SpecMapper *)

Mapped == mapper.status = "returned"

\* the fingertips whose projected point is below no fret line
BeyondFrets ==
    {i \in 1..Len(mapper.fingertips) :
        \A k \in 1..NumFretLines :
            ~QLess(projectPoints(mapper.bound.matrix,
                                 <<mapper.fingertips[i].position>>)[1].y,
                   MapperFrets[k].start.y)}

\* the string line nearest to the projected point of fingertip i, the first
\* of them when two are as near
NearestString(i) ==
    CHOOSE s \in 1..NumStringLines :
        \A t \in 1..NumStringLines :
            \E p \in {projectPoints(mapper.bound.matrix,
                                    <<mapper.fingertips[i].position>>)[1]} :
                \/ QLess(QAbs(QSub(p.x, MapperStrings[s].start.x)),
                         QAbs(QSub(p.x, MapperStrings[t].start.x)))
                \/ /\ QAbs(QSub(p.x, MapperStrings[s].start.x))
                        = QAbs(QSub(p.x, MapperStrings[t].start.x))
                   /\ s <= t

\* C23: a fingertip whose projected point lies beyond every fret line is
\* assigned fretIdx = frets.length and its nearest string; no other
\* assignment takes its place.
C23_BeyondFretsKeepsBand ==
    Mapped =>
        \A i \in BeyondFrets :
            /\ mapper.value.assignments[i].fretIdx = NumFretLines
            /\ mapper.value.assignments[i].stringIdx = NearestString(i)

\* the assignments as they are before the consistency pass
BeforePass ==
    MapFingertips(mapper.fingertips, mapper.bound.matrix, MapperStrings, MapperFrets)

\* assignment i is the a or the b of a pair with a.fingerId < b.fingerId and
\* a.stringIdx > b.stringIdx
OutOfOrder(before, i) ==
    \E j \in 1..Len(before) :
        \/ before[i].fingerId < before[j].fingerId
             /\ before[i].stringIdx > before[j].stringIdx
        \/ before[j].fingerId < before[i].fingerId
             /\ before[j].stringIdx > before[i].stringIdx

-----------------------------------------------------------------------------
(* Claims about the located fretboard, checked under SpecFretboard *)

\* estimateFretboard returned the result of a manual calibration whose
\* reference fret lies below the nut
ManuallyCalibrated ==
    /\ estimate.status = "returned"
    /\ manualPoints.given
    /\ manualPoints.invalid = {}
    /\ imageData.kind # "null"
    /\ QLess(manualPoints.points[1].y, manualPoints.points[3].y)

\* C25: the frets of a manual calibration are listed by increasing position:
\* entry k, from 0, lies at y = nutLeft.y + k * (fretLeft.y - nutLeft.y) / 3,
\* the nut and frets 1 to 5.
C25_FretsListedByPosition ==
    ManuallyCalibrated =>
        /\ Len(estimate.value.frets) = LastFret + 1
        /\ \A k \in 0..LastFret :
               estimate.value.frets[k + 1].start.y =
                   QAdd(manualPoints.points[1].y,
                        QMul(QInt(k),
                             QDiv(QSub(manualPoints.points[3].y,
                                       manualPoints.points[1].y),
                                  QInt(3))))

\* automatic mode on an image whose lines detectLines gives less than 0.6
AutomaticBelowFloor ==
    /\ Estimated
    /\ imageData.kind # "null"
    /\ ~manualPoints.given
    /\ LessThan(detectLines(imageData).confidence, Q(6, 10))

\* C26: in automatic mode with a line confidence below 0.6, estimateFretboard
\* returns confidence 0 with no homography, no string or fret lines, and
\* needsManualCalibration set.
C26_BelowFloorReportsZero ==
    AutomaticBelowFloor =>
        /\ estimate.status = "returned"
        /\ estimate.value = Unlocated(Num(QZero))

-----------------------------------------------------------------------------
(* Claims about assignHands, checked under SpecAssigner *)

TwoHandsAssigned ==
    /\ assigner.status = "returned"
    /\ Len(assigner.hands) = 2

\* the keypoints of hand h inside the region of interest, its edges included
InsideROI(h) ==
    IF ~assigner.roi.present THEN {}
    ELSE {k \in 1..Len(assigner.hands[h].keypoints) :
             /\ assigner.hands[h].keypoints[k].x \in
                    assigner.roi.x..(assigner.roi.x + assigner.roi.width)
             /\ assigner.hands[h].keypoints[k].y \in
                    assigner.roi.y..(assigner.roi.y + assigner.roi.height)}

\* four times the square of the distance of the wrist of hand h to the centre
\* of the region
WristToCentre(h) ==
    (2 * assigner.hands[h].keypoints[1].x
         - (2 * assigner.roi.x + assigner.roi.width)) ^ 2
    + (2 * assigner.hands[h].keypoints[1].y
         - (2 * assigner.roi.y + assigner.roi.height)) ^ 2

\* both hands have a wrist and hand h is the one nearer to the centre
WristNearer(h, other) ==
    /\ assigner.roi.present
    /\ Len(assigner.hands[h].keypoints) > 0
    /\ Len(assigner.hands[other].keypoints) > 0
    /\ WristToCentre(h) < WristToCentre(other)

\* C27: of two hands the one with strictly more keypoints inside the region
\* of interest is fretting; on equal counts the one whose wrist is nearer to
\* the centre of the region is; the other hand is strumming, so both roles
\* are filled, by different hands.
C27_FrettingHandOfTwo ==
    TwoHandsAssigned =>
        /\ \A h \in 1..2 :
              \/ Cardinality(InsideROI(h)) > Cardinality(InsideROI(3 - h))
              \/ /\ Cardinality(InsideROI(h)) = Cardinality(InsideROI(3 - h))
                 /\ WristNearer(h, 3 - h)
              => assigner.value.fretting = h
        /\ {assigner.value.fretting, assigner.value.strumming} = {1, 2}

\* equal counts inside the region, the second hand's wrist nearer
C27_Witness ==
    /\ TwoHandsAssigned
    /\ Cardinality(InsideROI(1)) = Cardinality(InsideROI(2))
    /\ Cardinality(InsideROI(1)) > 0
    /\ WristNearer(2, 1)
    /\ Len(assigner.hands[2].keypoints) > 1
    /\ assigner.hands[2].keypoints[1] # assigner.hands[2].keypoints[2]
    /\ assigner.value = HandAssignment(2, 1)

-----------------------------------------------------------------------------
(* Claims about dispose(), checked under SpecDisposal *)

\* what HandTracker.dispose() leaves: no landmarker, an empty keypoint filter
TrackerCleared ==
    handTracker = [isInitialized |-> FALSE, filterPrimed |-> FALSE]

\* The frame loop of a processor that is stopped only by dispose()
DisposalNext ==
    \/ Start
    \/ Dispose
    \/ Reset
    \/ Initialize
    \/ SetChordTarget
    \/ FireAnimationFrame
    \/ FireVideoFrame
    \/ ResumeConvert
    \/ ResumeInit
    \/ ResumeDetect

SpecDisposal == Init /\ [][DisposalNext]_vars

\* dispose() was called, or the processor never started, and neither
\* initialize() nor start() was called since: only start() sets isRunning,
\* here only dispose() clears it, and only dispose() takes the landmarker
\* away
Disposed == ~isRunning /\ TrackerCleared

\* C28: after dispose() and until initialize() or start() is called again the
\* hand tracker stays uninitialized and its keypoint filter stays cleared,
\* also when a frame was suspended before its hand detection at the time of
\* the call.
C28_DisposedStaysCleared ==
    [][(Disposed /\ ~Initialize /\ ~Start) => TrackerCleared']_vars

-----------------------------------------------------------------------------
(* Claims about the ManualCalibration wizard, checked under SpecWizard *)

WizardSteps == <<"nut-left", "nut-right", "fret-left", "fret-right", "complete">>

\* the points of the first four taps, each in the step it was made in
FourTaps ==
    [nutLeft |-> wizard.taps[1], nutRight |-> wizard.taps[2],
     fretLeft |-> wizard.taps[3], fretRight |-> wizard.taps[4]]

\* C29: the wizard advances one step per tap; after exactly four taps the
\* step is 'complete' and the calibration computed from those four points is
\* what setFretboard stored and saveCalibration saved, with no fifth tap.
C29_FourTapsComplete ==
    /\ Len(wizard.taps) <= 4 => wizard.step = WizardSteps[Len(wizard.taps) + 1]
    /\ Len(wizard.taps) >= 4 =>
          /\ wizard.step = "complete"
          /\ wizard.store.fretboard = ManualFretboard(FourTaps)
          /\ Len(wizard.store.profiles) = 1
          /\ wizard.store.profiles[1].homography
                 = ManualFretboard(FourTaps).homography

-----------------------------------------------------------------------------
(* Claims about generateFeedback, checked under SpecScore *)

\* the messages generateFeedback gives for the scored fingers
Feedback == generateFeedback(result)

HasMessage(text) == \E i \in 1..Len(Feedback) : Includes(Feedback[i], text)

\* C30: for every string that scoreChord reports as not ok the feedback holds
\* a corrective message: 'check fret position' for a wrong fret, 'place
\* finger' on that string for a missing finger, 'remove finger' on that
\* string for a blocked open string.
C30_MessagePerFailedString ==
    \A s \in Strings :
        ~result.perString[s].ok =>
            CASE Includes(result.perString[s].reason, "wrong fret") ->
                   HasMessage("check fret position")
              [] Includes(result.perString[s].reason, "missing") ->
                   HasMessage("String " \o ToString(s) \o ": place finger")
              [] Includes(result.perString[s].reason, "blocking") ->
                   HasMessage("String " \o ToString(s) \o ": remove finger")
              [] OTHER -> FALSE

=============================================================================
